---- MODULE Spec2Model ----
(***************************************************************************)
(* Model of the JobThai scraper: the job queue (queue.js), the JSON file   *)
(* handler (utils/file-handler.js), the worker pool (worker.js) and the    *)
(* listing walk (scraper.js, utils/parser.js).                             *)
(*                                                                         *)
(* Objects are records, methods are operators from an object (and the      *)
(* arguments) to the object after the call, the returned value and the     *)
(* events emitted.  JavaScript runs one synchronous segment at a time, so  *)
(* an action is one segment: the code between two awaits.                  *)
(***************************************************************************)
EXTENDS Integers, Sequences, FiniteSets, TLC

VARIABLES
    config,       \* config.json: retryAttempts, maxPages
    scraper,      \* JobThaiScraper and main(): position, listing session, close() calls
    queue,        \* JobQueue: pending, processing, completed, failed, paused
    fileHandler,  \* FileHandler: jobs, isInitialized
    disk,         \* content of the output file
    workers,      \* Worker objects and the position of each start() loop
    pool,         \* WorkerPool: isRunning, and whether start() has resolved
    walk,         \* scrapeJobListings: position, pageNum, currentUrl
    site,         \* the listing site the walk reads
    calls,        \* addJob calls in flight on the file handler
    hist,         \* history: what the calls so far returned
    last          \* the most recent queue call: op, arg, ret, events

vars == <<config, scraper, queue, fileHandler, disk, workers, pool, walk, site, calls, hist, last>>

----------------------------------------------------------------------------
(* Bounds of the model *)

MaxJobs == 2
NumWorkers == 2
MaxRetryAttempts == 2
MaxRuns == 2
MaxFaults == 1

(* job.attempts < 3 in JobQueue.fail *)
RetryLimit == 3

JobIds == 1 .. MaxJobs
WorkerIds == 1 .. NumWorkers

----------------------------------------------------------------------------
(* Helpers on sequences *)

Ids(s) == { s[i].id : i \in DOMAIN s }

RemoveAt(s, i) == SubSeq(s, 1, i - 1) \o SubSeq(s, i + 1, Len(s))

(* Array.prototype.findIndex(j => j.id === jobId); 0 stands for -1 *)
FindIndex(s, id) ==
    IF \E i \in DOMAIN s : s[i].id = id
    THEN CHOOSE i \in DOMAIN s : s[i].id = id /\ \A k \in 1 .. (i - 1) : s[k].id # id
    ELSE 0

NoDup(s) == \A i, k \in DOMAIN s : i # k => s[i] # s[k]

NoDupIds(s) == \A i, k \in DOMAIN s : i # k => s[i].id # s[k].id

Count(s, id) == Cardinality({ i \in DOMAIN s : s[i].id = id })

----------------------------------------------------------------------------
(* JobQueue *)

NoJob == [id |-> 0, attempts |-> 0]

Ev(type, id) == [type |-> type, id |-> id, completed |-> 0, failed |-> 0]

JobQueueNew ==
    [pending |-> <<>>, processing |-> <<>>, completed |-> <<>>, failed |-> <<>>,
     paused |-> FALSE]

QExistsPendingOnly(q, id) == id \in Ids(q.pending)

QExists(q, id) ==
    \/ id \in Ids(q.pending)
    \/ id \in Ids(q.processing)
    \/ id \in Ids(q.completed)
    \/ id \in Ids(q.failed)

QAdd(q, id) ==
    IF QExists(q, id)
    THEN [q |-> q, ret |-> FALSE, ev |-> <<>>]
    ELSE [q |-> [q EXCEPT !.pending = Append(@, [id |-> id, attempts |-> 0])],
          ret |-> TRUE,
          ev |-> << Ev("job:added", id) >>]

RECURSIVE QAddBulkFrom(_, _, _, _)
QAddBulkFrom(q, jobs, added, ev) ==
    IF jobs = <<>>
    THEN [q |-> q, ret |-> added, ev |-> ev]
    ELSE LET r == QAdd(q, Head(jobs))
         IN QAddBulkFrom(r.q, Tail(jobs), IF r.ret THEN added + 1 ELSE added, ev \o r.ev)

QAddBulk(q, jobs) == QAddBulkFrom(q, jobs, 0, <<>>)

QGetNextPeek(q) ==
    IF q.paused \/ Len(q.pending) = 0
    THEN [q |-> q, ret |-> NoJob, ev |-> <<>>]
    ELSE LET job == [Head(q.pending) EXCEPT !.attempts = @ + 1]
         IN [q |-> [q EXCEPT !.pending = <<job>> \o Tail(@), !.processing = Append(@, job)],
             ret |-> job,
             ev |-> << Ev("job:started", job.id) >>]

(* a getNext that does not look at paused *)
QGetNextWhilePaused(q) ==
    IF Len(q.pending) = 0
    THEN [q |-> q, ret |-> NoJob, ev |-> <<>>]
    ELSE LET job == [Head(q.pending) EXCEPT !.attempts = @ + 1]
         IN [q |-> [q EXCEPT !.pending = Tail(@), !.processing = Append(@, job)],
             ret |-> job,
             ev |-> << Ev("job:started", job.id) >>]

(* a getNext that takes the job at the back of pending *)
QGetNextLast(q) ==
    IF q.paused \/ Len(q.pending) = 0
    THEN [q |-> q, ret |-> NoJob, ev |-> <<>>]
    ELSE LET job == [q.pending[Len(q.pending)] EXCEPT !.attempts = @ + 1]
         IN [q |-> [q EXCEPT !.pending = SubSeq(@, 1, Len(@) - 1),
                             !.processing = Append(@, job)],
             ret |-> job,
             ev |-> << Ev("job:started", job.id) >>]

(* a getNext that does not count the attempt *)
QGetNextNoCount(q) ==
    IF q.paused \/ Len(q.pending) = 0
    THEN [q |-> q, ret |-> NoJob, ev |-> <<>>]
    ELSE LET job == Head(q.pending)
         IN [q |-> [q EXCEPT !.pending = Tail(@), !.processing = Append(@, job)],
             ret |-> job,
             ev |-> << Ev("job:started", job.id) >>]

QGetNext(q) ==
    IF q.paused \/ Len(q.pending) = 0
    THEN [q |-> q, ret |-> NoJob, ev |-> <<>>]
    ELSE LET job == [Head(q.pending) EXCEPT !.attempts = @ + 1]
         IN [q |-> [q EXCEPT !.pending = Tail(@), !.processing = Append(@, job)],
             ret |-> job,
             ev |-> << Ev("job:started", job.id) >>]

(* a checkDone that looks at pending only *)
QCheckDonePendingOnly(q) ==
    IF Len(q.pending) = 0
    THEN << [type |-> "queue:done", id |-> 0,
             completed |-> Len(q.completed), failed |-> Len(q.failed)] >>
    ELSE <<>>

QCheckDone(q) ==
    IF Len(q.pending) = 0 /\ Len(q.processing) = 0
    THEN << [type |-> "queue:done", id |-> 0,
             completed |-> Len(q.completed), failed |-> Len(q.failed)] >>
    ELSE <<>>

(* a complete that also takes a job that is still pending *)
QCompleteFromPending(q, id) ==
    LET index == FindIndex(q.processing, id)
        waits == FindIndex(q.pending, id)
    IN IF index = 0 /\ waits = 0
       THEN [q |-> q, ret |-> FALSE, ev |-> <<>>]
       ELSE LET job == IF index # 0 THEN q.processing[index] ELSE q.pending[waits]
                q2 == IF index # 0
                      THEN [q EXCEPT !.processing = RemoveAt(@, index),
                                     !.completed = Append(@, job)]
                      ELSE [q EXCEPT !.pending = RemoveAt(@, waits),
                                     !.completed = Append(@, job)]
            IN [q |-> q2, ret |-> TRUE,
                ev |-> << Ev("job:completed", id) >> \o QCheckDone(q2)]

QCompleteKeep(q, id) ==
    LET index == FindIndex(q.processing, id)
    IN IF index = 0
       THEN [q |-> q, ret |-> FALSE, ev |-> <<>>]
       ELSE LET job == q.processing[index]
                q2 == [q EXCEPT !.completed = Append(@, job)]
            IN [q |-> q2, ret |-> TRUE,
                ev |-> << Ev("job:completed", id) >> \o QCheckDone(q2)]

QComplete(q, id) ==
    LET index == FindIndex(q.processing, id)
    IN IF index = 0
       THEN [q |-> q, ret |-> FALSE, ev |-> <<>>]
       ELSE LET job == q.processing[index]
                q2 == [q EXCEPT !.processing = RemoveAt(@, index),
                                !.completed = Append(@, job)]
            IN [q |-> q2, ret |-> TRUE,
                ev |-> << Ev("job:completed", id) >> \o QCheckDone(q2)]

(* a fail that re-inserts the job to retry at the back of pending *)
QFailToBack(q, id, retry) ==
    LET index == FindIndex(q.processing, id)
    IN IF index = 0
       THEN [q |-> q, ret |-> FALSE, ev |-> <<>>]
       ELSE LET job == q.processing[index]
                q1 == [q EXCEPT !.processing = RemoveAt(@, index)]
                q2 == IF retry /\ job.attempts < RetryLimit
                      THEN [q1 EXCEPT !.pending = Append(@, job)]
                      ELSE [q1 EXCEPT !.failed = Append(@, job)]
            IN [q |-> q2, ret |-> TRUE,
                ev |-> << Ev(IF retry /\ job.attempts < RetryLimit
                             THEN "job:retry" ELSE "job:failed", id) >>
                       \o QCheckDone(q2)]

QFailOffByOne(q, id, retry) ==
    LET index == FindIndex(q.processing, id)
    IN IF index = 0
       THEN [q |-> q, ret |-> FALSE, ev |-> <<>>]
       ELSE LET job == q.processing[index]
                q1 == [q EXCEPT !.processing = RemoveAt(@, index)]
                q2 == IF retry /\ job.attempts <= RetryLimit
                      THEN [q1 EXCEPT !.pending = <<job>> \o @]
                      ELSE [q1 EXCEPT !.failed = Append(@, job)]
            IN [q |-> q2, ret |-> TRUE,
                ev |-> << Ev(IF retry /\ job.attempts <= RetryLimit
                             THEN "job:retry" ELSE "job:failed", id) >>
                       \o QCheckDone(q2)]

QFail(q, id, retry) ==
    LET index == FindIndex(q.processing, id)
    IN IF index = 0
       THEN [q |-> q, ret |-> FALSE, ev |-> <<>>]
       ELSE LET job == q.processing[index]
                q1 == [q EXCEPT !.processing = RemoveAt(@, index)]
                q2 == IF retry /\ job.attempts < RetryLimit
                      THEN [q1 EXCEPT !.pending = <<job>> \o @]
                      ELSE [q1 EXCEPT !.failed = Append(@, job)]
            IN [q |-> q2, ret |-> TRUE,
                ev |-> << Ev(IF retry /\ job.attempts < RetryLimit
                             THEN "job:retry" ELSE "job:failed", id) >>
                       \o QCheckDone(q2)]

QPause(q) == [q |-> [q EXCEPT !.paused = TRUE], ret |-> TRUE, ev |-> << Ev("queue:paused", 0) >>]

QResume(q) == [q |-> [q EXCEPT !.paused = FALSE], ret |-> TRUE, ev |-> << Ev("queue:resumed", 0) >>]

QIsEmpty(q) == Len(q.pending) = 0

(* an isDone that looks at pending only *)
QIsDonePendingOnly(q) == Len(q.pending) = 0

QIsDone(q) == Len(q.pending) = 0 /\ Len(q.processing) = 0

(* a getStats whose total leaves out the jobs in processing *)
QGetStatsNoProcessing(q) ==
    [pending |-> Len(q.pending), processing |-> Len(q.processing),
     completed |-> Len(q.completed), failed |-> Len(q.failed),
     total |-> Len(q.pending) + Len(q.completed) + Len(q.failed),
     paused |-> q.paused]

QGetStats(q) ==
    [pending |-> Len(q.pending), processing |-> Len(q.processing),
     completed |-> Len(q.completed), failed |-> Len(q.failed),
     total |-> Len(q.pending) + Len(q.processing) + Len(q.completed) + Len(q.failed),
     paused |-> q.paused]

(* job.attempts = 0 for every job spliced out of failed *)
RECURSIVE ResetAttempts(_)
ResetAttempts(jobs) ==
    IF jobs = <<>> THEN <<>>
    ELSE << [Head(jobs) EXCEPT !.attempts = 0] >> \o ResetAttempts(Tail(jobs))

(* a retryFailed that puts the failed jobs in front of pending *)
QRetryFailedToFront(q) ==
    [q |-> [q EXCEPT !.failed = <<>>, !.pending = ResetAttempts(q.failed) \o @],
     ret |-> Len(q.failed), ev |-> <<>>]

(* retryFailed: failed.splice(0), every job with attempts 0 pushed to pending;
   it emits nothing and does not call checkDone *)
QRetryFailed(q) ==
    [q |-> [q EXCEPT !.failed = <<>>, !.pending = @ \o ResetAttempts(q.failed)],
     ret |-> Len(q.failed), ev |-> <<>>]

----------------------------------------------------------------------------
(* FileHandler and the output file *)

(* the output paths: the default of the configuration, and a path without
   the extension .json *)
JsonPath == "./output/jobs.json"
PlainPath == "./output/jobs"

FileHandlerNew == [outputPath |-> JsonPath, jobs |-> <<>>, isInitialized |-> FALSE]

NoFile == [kind |-> "absent"]

(* a file whose content JSON.parse rejects: foreign text, or a write cut short *)
Malformed == [kind |-> "malformed"]

(* JSON.stringify({metadata: {totalJobs, lastUpdated, version}, jobs}); now is
   the time of the clock, new Date() *)
Document(jobs, now) ==
    [kind |-> "doc", totalJobs |-> Len(jobs), lastUpdated |-> now, jobs |-> jobs]

(* JSON.parse(data).jobs || [], and [] when JSON.parse throws *)
ParseJobs(d) == IF d.kind = "doc" THEN d.jobs ELSE <<>>

(* a save whose totalJobs misses the last record *)
FHSaveStaleCount(fh, now) ==
    [Document(fh.jobs, now) EXCEPT !.totalJobs = IF @ > 0 THEN @ - 1 ELSE 0]

FHSave(fh, now) == Document(fh.jobs, now)

(* an init that fails on a file JSON.parse rejects: it leaves the handler
   not initialized and the file as it is *)
FHInitStrict(fh, d, now) ==
    IF d.kind = "malformed"
    THEN [fh |-> fh, disk |-> d, ret |-> [void |-> TRUE, n |-> 0], writes |-> 0]
    ELSE LET fh2 == [fh EXCEPT !.jobs = IF d.kind = "absent" THEN @ ELSE ParseJobs(d),
                               !.isInitialized = TRUE]
         IN [fh |-> fh2, disk |-> FHSave(fh2, now), ret |-> [void |-> TRUE, n |-> 0],
             writes |-> 1]

(* init: the records of the file if there is one, a save; it has no return
   statement.  ret is what a call returns (void: undefined) and writes the
   number of times it wrote the output file *)
FHInit(fh, d, now) ==
    LET fh2 == [fh EXCEPT !.jobs = IF d.kind = "absent" THEN @ ELSE ParseJobs(d),
                          !.isInitialized = TRUE]
    IN [fh |-> fh2, disk |-> FHSave(fh2, now), ret |-> [void |-> TRUE, n |-> 0],
        writes |-> 1]

FHHasJobNever(fh, id) == FALSE

FHHasJob(fh, id) == \E i \in DOMAIN fh.jobs : fh.jobs[i].id = id

(* addJob(jobData) from the duplicate check on, for a record with all its
   fields *)
FHAddJobData(fh, d, jobData, now) ==
    IF FHHasJob(fh, jobData.id)
    THEN [fh |-> fh, disk |-> d, ret |-> FALSE, writes |-> 0]
    ELSE LET fh2 == [fh EXCEPT !.jobs = Append(@, jobData)]
         IN [fh |-> fh2, disk |-> FHSave(fh2, now), ret |-> TRUE, writes |-> 1]

(* an addJob that keeps only the record it is given *)
FHAddJobReplace(fh, d, id, now) ==
    IF FHHasJob(fh, id)
    THEN [fh |-> fh, disk |-> d, ret |-> FALSE, writes |-> 0]
    ELSE LET fh2 == [fh EXCEPT !.jobs = << [id |-> id] >>]
         IN [fh |-> fh2, disk |-> FHSave(fh2, now), ret |-> TRUE, writes |-> 1]

(* an addJob that saves before it returns false *)
FHAddJobSaveAlways(fh, d, id, now) ==
    IF FHHasJob(fh, id)
    THEN [fh |-> fh, disk |-> FHSave(fh, now), ret |-> FALSE, writes |-> 1]
    ELSE LET fh2 == [fh EXCEPT !.jobs = Append(@, [id |-> id])]
         IN [fh |-> fh2, disk |-> FHSave(fh2, now), ret |-> TRUE, writes |-> 1]

(* addJob from the duplicate check on: check, push, save; one synchronous segment *)
FHAddJob(fh, d, id, now) ==
    IF FHHasJob(fh, id)
    THEN [fh |-> fh, disk |-> d, ret |-> FALSE, writes |-> 0]
    ELSE LET fh2 == [fh EXCEPT !.jobs = Append(@, [id |-> id])]
         IN [fh |-> fh2, disk |-> FHSave(fh2, now), ret |-> TRUE, writes |-> 1]

(* the loop of addJobs: push every job whose id is not in existingIds *)
RECURSIVE FHPushNew(_, _, _)
FHPushNew(jobs, batch, added) ==
    IF batch = <<>>
    THEN [jobs |-> jobs, added |-> added]
    ELSE IF Head(batch) \in Ids(jobs)
         THEN FHPushNew(jobs, Tail(batch), added)
         ELSE FHPushNew(Append(jobs, [id |-> Head(batch)]), Tail(batch), added + 1)

(* an addJobs that saves after every record it pushes *)
FHAddJobsSaveEach(fh, d, batch, now) ==
    LET p == FHPushNew(fh.jobs, batch, 0)
        fh2 == [fh EXCEPT !.jobs = p.jobs]
    IN [fh |-> fh2,
        disk |-> IF p.added > 0 THEN FHSave(fh2, now + p.added - 1) ELSE d,
        ret |-> p.added, writes |-> p.added]

(* addJobs after its init: the loop, then one save if anything was added *)
FHAddJobs(fh, d, batch, now) ==
    LET p == FHPushNew(fh.jobs, batch, 0)
        fh2 == [fh EXCEPT !.jobs = p.jobs]
    IN [fh |-> fh2, disk |-> IF p.added > 0 THEN FHSave(fh2, now) ELSE d,
        ret |-> p.added, writes |-> IF p.added > 0 THEN 1 ELSE 0]

(* JSON.stringify({metadata: {totalJobs, backupDate}, jobs}) *)
BackupDocument(jobs, now) ==
    [kind |-> "doc", totalJobs |-> Len(jobs), backupDate |-> now, jobs |-> jobs]

(* outputPath.replace('.json', '-backup-<timestamp>.json'): a path without
   '.json' is returned as it is *)
BackupPath(outputPath, now) ==
    IF outputPath = JsonPath THEN "./output/jobs-backup.json" ELSE outputPath

(* backup: d is the output file and b the backup file of this time, absent
   before the call *)
FHBackup(fh, d, b, now) ==
    IF Len(fh.jobs) = 0
    THEN [fh |-> fh, disk |-> d, backup |-> b]
    ELSE IF BackupPath(fh.outputPath, now) = fh.outputPath
         THEN [fh |-> fh, disk |-> BackupDocument(fh.jobs, now), backup |-> b]
         ELSE [fh |-> fh, disk |-> d, backup |-> BackupDocument(fh.jobs, now)]

(* whether backup() has written a file, now or before *)
BackupWritten(fh, before) == before \/ Len(fh.jobs) > 0

(* a getExistingIds that returns an empty set *)
FHGetExistingIdsNone(fh) == {}

FHGetExistingIds(fh) == Ids(fh.jobs)

FHGetCount(fh) == Len(fh.jobs)

(* a caller of the file handler with no addJob or addJobs call under way *)
NoCallInFlight == [pc |-> "idle", op |-> "none", ids |-> <<>>]

(* a Worker after its constructor and init(); hero is its driver session:
   "open", "closing" (hero.close() called and not settled) or "closed" (null) *)
WorkerNew == [isRunning |-> FALSE, pc |-> "new", job |-> NoJob, hero |-> "open"]

(* a WorkerPool after its constructor and init(); closed: this.workers = [] *)
PoolNew == [isRunning |-> FALSE, resolved |-> FALSE, closed |-> FALSE]

(* the final statistics start() reports: none yet *)
NoStats == [taken |-> FALSE, completed |-> 0, failed |-> 0, stored |-> 0]

(* a JobThaiScraper after its constructor, in a process whose main() has not
   called init(): pc is the position of main(), close the position of the
   close() called by main() and of the one called by the shutdown handler,
   backup whether backup() has written a file and backupFile that file *)
ScraperNew ==
    [pc |-> "new", isRunning |-> FALSE, hero |-> "open",
     close |-> [main |-> "none", shutdown |-> "none"],
     backup |-> FALSE, backupFile |-> NoFile, exited |-> "no", stats |-> NoStats]

----------------------------------------------------------------------------
(* History and the record of the last queue call *)

HistNew ==
    [addTrue  |-> [id \in JobIds |-> 0],   \* times add(id) returned true
     dequeues |-> [id \in JobIds |-> 0],   \* times getNext returned the job since it entered pending
                                           \* by add or by retryFailed
     requeued |-> {},                      \* ids retryFailed moved back to pending
     fails    |-> [id \in JobIds |-> 0],   \* times a worker reported fail
     acked    |-> {},                      \* ids whose addJob returned true
     faults   |-> 0,                       \* writes of the output file that threw
     atStop   |-> [id \in JobIds |-> 0],   \* dequeues when the stop signal was handled
     done     |-> 0,                       \* queue:done events the reports of the workers emitted
     closeFailed |-> FALSE,                \* the closing of some session threw
     pageRetries |-> 0,                    \* fetches of the current listing page after a failure
     clock    |-> 0,                       \* the time of the clock, new Date()
     before   |-> [fh |-> FileHandlerNew, disk |-> NoFile, clock |-> 0],
                                           \* the handler, the file and the clock before the last call
     runs     |-> 1]                       \* processes started on the output file

(* ret is the boolean a call returned, count the number addBulk or
   retryFailed returned and job the job getNext returned *)
Call(op, arg, r) ==
    [op |-> op, arg |-> arg,
     ret |-> IF op \in {"addBulk", "retryFailed"} THEN r.ret > 0
             ELSE IF op = "getNext" THEN r.ret # NoJob ELSE r.ret,
     count |-> IF op \in {"addBulk", "retryFailed"} THEN r.ret ELSE 0,
     job |-> IF op = "getNext" THEN r.ret ELSE NoJob,
     ev |-> r.ev, void |-> FALSE]

NoCall ==
    [op |-> "none", arg |-> <<>>, ret |-> FALSE, count |-> 0, job |-> NoJob, ev |-> <<>>,
     void |-> FALSE]

(* the history after a worker's complete or fail that emitted the events of r *)
Emitted(h, r) ==
    [h EXCEPT !.done = @ + Cardinality({ i \in DOMAIN r.ev : r.ev[i].type = "queue:done" })]

RECURSIVE CountAdded(_, _, _)
CountAdded(h, q, jobs) ==
    IF jobs = <<>> THEN h
    ELSE LET r == QAdd(q, Head(jobs))
         IN CountAdded(IF r.ret THEN [h EXCEPT !.addTrue[Head(jobs)] = @ + 1] ELSE h,
                       r.q, Tail(jobs))

(* the batches addBulk is given: one job, or two (the same id twice included) *)
Batches ==
    { <<a>> : a \in JobIds } \cup { <<a, b>> : a, b \in JobIds }

ConfigDefault == [retryAttempts |-> RetryLimit, maxPages |-> 0]

(* scrapeJobListings not called yet; currentUrl 0 is the null url and the
   url of a listing page is its number *)
WalkNew ==
    [pc |-> "new", currentUrl |-> 0, pageNum |-> 1, existingIds |-> {},
     known |-> {}, processed |-> 0, exit |-> "none"]

(* no listing site is read *)
NoSite == [pages |-> 0, style |-> "link"]

----------------------------------------------------------------------------
(* The queue driven through its public methods, in any order *)

Idle ==
    /\ fileHandler = FileHandlerNew
    /\ disk = NoFile
    /\ workers = [w \in WorkerIds |-> WorkerNew]
    /\ pool = PoolNew
    /\ scraper = ScraperNew
    /\ walk = WalkNew
    /\ site = NoSite
    /\ calls = [c \in WorkerIds |-> NoCallInFlight]

QueueInit ==
    /\ config = ConfigDefault
    /\ queue = JobQueueNew
    /\ hist = HistNew
    /\ last = NoCall
    /\ Idle

QueueFrame == UNCHANGED <<config, scraper, fileHandler, disk, workers, pool, walk, site, calls>>

Add(id) ==
    LET r == QAdd(queue, id)
    IN /\ queue' = r.q
       /\ hist' = CountAdded(hist, queue, <<id>>)
       /\ last' = Call("add", <<id>>, r)
       /\ QueueFrame

AddBulk(jobs) ==
    LET r == QAddBulk(queue, jobs)
    IN /\ queue' = r.q
       /\ hist' = CountAdded(hist, queue, jobs)
       /\ last' = Call("addBulk", jobs, r)
       /\ QueueFrame

GetNext ==
    LET r == QGetNext(queue)
    IN /\ queue' = r.q
       /\ hist' = IF r.ret = NoJob THEN hist
                  ELSE [hist EXCEPT !.dequeues[r.ret.id] = @ + 1]
       /\ last' = Call("getNext", <<>>, r)
       /\ QueueFrame

Complete(id) ==
    LET r == QComplete(queue, id)
    IN /\ queue' = r.q
       /\ last' = Call("complete", <<id>>, r)
       /\ UNCHANGED hist
       /\ QueueFrame

Fail(id, retry) ==
    LET r == QFail(queue, id, retry)
    IN /\ queue' = r.q
       /\ last' = Call(IF retry THEN "fail:retry" ELSE "fail", <<id>>, r)
       /\ UNCHANGED hist
       /\ QueueFrame

Pause ==
    LET r == QPause(queue)
    IN /\ queue' = r.q
       /\ last' = Call("pause", <<>>, r)
       /\ UNCHANGED hist
       /\ QueueFrame

Resume ==
    LET r == QResume(queue)
    IN /\ queue' = r.q
       /\ last' = Call("resume", <<>>, r)
       /\ UNCHANGED hist
       /\ QueueFrame

QueueNext ==
    \/ \E id \in JobIds : Add(id)
    \/ \E jobs \in Batches : AddBulk(jobs)
    \/ GetNext
    \/ \E id \in JobIds : Complete(id)
    \/ \E id \in JobIds, retry \in BOOLEAN : Fail(id, retry)
    \/ Pause
    \/ Resume

QueueSpec == QueueInit /\ [][QueueNext]_vars

(* The queue driven through add, getNext, complete, fail and retryFailed,
   in any order *)

RetryFailed ==
    LET r == QRetryFailed(queue)
    IN /\ queue' = r.q
       /\ hist' = [hist EXCEPT !.requeued = @ \cup Ids(queue.failed),
                               !.dequeues = [id \in JobIds |->
                                               IF id \in Ids(queue.failed) THEN 0 ELSE @[id]]]
       /\ last' = Call("retryFailed", <<>>, r)
       /\ QueueFrame

RequeueNext ==
    \/ \E id \in JobIds : Add(id)
    \/ GetNext
    \/ \E id \in JobIds : Complete(id)
    \/ \E id \in JobIds, retry \in BOOLEAN : Fail(id, retry)
    \/ RetryFailed

RequeueSpec == QueueInit /\ [][RequeueNext]_vars

(* The queue with its jobs enqueued in the order of their ids, so that the id
   of a job tells when it was enqueued; an id already enqueued can be
   enqueued again at any time *)
AddInOrder(id) ==
    /\ \A i \in 1 .. (id - 1) : hist.addTrue[i] > 0
    /\ Add(id)

FifoNext ==
    \/ \E id \in JobIds : AddInOrder(id)
    \/ GetNext
    \/ \E id \in JobIds : Complete(id)
    \/ \E id \in JobIds, retry \in BOOLEAN : Fail(id, retry)
    \/ Pause
    \/ Resume

FifoSpec == QueueInit /\ [][FifoNext]_vars

----------------------------------------------------------------------------
(* Worker and WorkerPool *)

(* the head of the while loop of Worker.start, up to its next await *)
(* a worker that leaves its loop whenever getNext returns no job *)
WorkerIterateExitOnNull(wk, q) ==
    IF ~wk.isRunning
    THEN [wk |-> [wk EXCEPT !.pc = "exited", !.job = NoJob], r |-> [q |-> q, ret |-> NoJob, ev |-> <<>>],
          called |-> FALSE]
    ELSE LET r == QGetNext(q)
         IN IF r.ret = NoJob
            THEN [wk |-> [wk EXCEPT !.pc = "exited", !.job = NoJob], r |-> r, called |-> TRUE]
            ELSE [wk |-> [wk EXCEPT !.pc = "fetch", !.job = r.ret], r |-> r, called |-> TRUE]

WorkerIterate(wk, q) ==
    IF ~wk.isRunning
    THEN [wk |-> [wk EXCEPT !.pc = "exited", !.job = NoJob], r |-> [q |-> q, ret |-> NoJob, ev |-> <<>>],
          called |-> FALSE]
    ELSE LET r == QGetNext(q)
         IN IF r.ret = NoJob
            THEN [wk |-> [wk EXCEPT !.pc = IF QIsDone(r.q) THEN "exited" ELSE "poll",
                                    !.job = NoJob],
                  r |-> r, called |-> TRUE]
            ELSE [wk |-> [wk EXCEPT !.pc = "fetch", !.job = r.ret], r |-> r, called |-> TRUE]

(* Worker.start from its first line to its first await *)
WorkerStartSegment(wk, q) ==
    IF wk.isRunning
    THEN [wk |-> wk, r |-> [q |-> q, ret |-> NoJob, ev |-> <<>>], called |-> FALSE]
    ELSE WorkerIterate([wk EXCEPT !.isRunning = TRUE], q)

Dequeued(h, r) ==
    IF r.ret = NoJob THEN h ELSE [h EXCEPT !.dequeues[r.ret.id] = @ + 1]

(* the state after worker w has run its start() to the first await *)
StartOne(st, w, it) ==
    [workers |-> [st.workers EXCEPT ![w] = it.wk],
     queue |-> it.r.q,
     hist |-> Dequeued(st.hist, it.r),
     last |-> IF it.called THEN Call("getNext", <<>>, it.r) ELSE st.last]

(* workers.map(worker => worker.start()): each start() runs to its first await, in order *)
RECURSIVE StartWorkers(_, _)
StartWorkers(st, w) ==
    IF w > Len(st.workers) THEN st
    ELSE CHOOSE after \in
            { StartWorkers(StartOne(s, w, WorkerStartSegment(s.workers[w], s.queue)), w + 1) :
                s \in {st} } : TRUE

StoreReady ==
    /\ fileHandler = [FileHandlerNew EXCEPT !.isInitialized = TRUE]
    /\ disk = Document(<<>>, 0)

Init ==
    /\ config \in [retryAttempts : 1 .. MaxRetryAttempts, maxPages : {0}]
    /\ queue = JobQueueNew
    /\ StoreReady
    /\ workers = [w \in WorkerIds |-> WorkerNew]
    /\ pool = PoolNew
    /\ scraper = ScraperNew
    /\ walk = WalkNew
    /\ site = NoSite
    /\ calls = [c \in WorkerIds |-> NoCallInFlight]
    /\ hist = HistNew
    /\ last = NoCall

(* phase 1 puts the jobs of a listing page into the queue *)
Seed(jobs) ==
    /\ ~pool.isRunning /\ ~pool.resolved
    /\ LET r == QAddBulk(queue, jobs)
       IN /\ queue' = r.q
          /\ hist' = CountAdded(hist, queue, jobs)
          /\ last' = Call("addBulk", jobs, r)
    /\ UNCHANGED <<config, scraper, fileHandler, disk, workers, pool, walk, site, calls>>

(* WorkerPool.start, called by JobThaiScraper.start when the queue is not empty *)
PoolStart ==
    /\ ~pool.isRunning /\ ~pool.resolved
    /\ ~QIsEmpty(queue)
    /\ \E st \in {StartWorkers([workers |-> workers, queue |-> queue, hist |-> hist,
                                 last |-> last], 1)} :
          /\ workers' = st.workers
          /\ queue' = st.queue
          /\ hist' = st.hist
          /\ last' = st.last
    /\ pool' = [pool EXCEPT !.isRunning = TRUE]
    /\ UNCHANGED <<config, scraper, fileHandler, disk, walk, site, calls>>

(* a worker's delay(500) or randomDelay() ends: the loop goes round *)
WorkerLoop(w) ==
    /\ workers[w].pc \in {"poll", "delay"}
    /\ LET it == WorkerIterate(workers[w], queue)
       IN /\ workers' = [workers EXCEPT ![w] = it.wk]
          /\ queue' = it.r.q
          /\ hist' = Dequeued(hist, it.r)
          /\ last' = IF it.called THEN Call("getNext", <<>>, it.r) ELSE last
    /\ UNCHANGED <<config, scraper, fileHandler, disk, pool, walk, site, calls>>

(* processJob got and extracted the page and addJob has saved the record *)
FetchOk(w) ==
    /\ workers[w].pc = "fetch"
    /\ LET a == FHAddJob(fileHandler, disk, workers[w].job.id, hist.clock)
       IN /\ fileHandler' = a.fh
          /\ disk' = a.disk
          /\ hist' = IF a.ret THEN [hist EXCEPT !.acked = @ \cup {workers[w].job.id}] ELSE hist
    /\ workers' = [workers EXCEPT ![w].pc = "saved"]
    /\ UNCHANGED <<config, scraper, queue, pool, walk, site, calls, last>>

(* processJob got the page, addJob pushed the record and writeFileSync threw *)
SaveThrows(w) ==
    /\ workers[w].pc = "fetch"
    /\ hist.faults < MaxFaults
    /\ ~FHHasJob(fileHandler, workers[w].job.id)
    /\ fileHandler' = [fileHandler EXCEPT !.jobs = Append(@, [id |-> workers[w].job.id])]
    /\ disk' \in {disk, Malformed}
    /\ workers' = [workers EXCEPT ![w].pc = "threw"]
    /\ hist' = [hist EXCEPT !.faults = @ + 1]
    /\ UNCHANGED <<config, scraper, queue, pool, walk, site, calls, last>>

(* a worker that reports a failed attempt as not to be retried *)
WorkerReportFatal(w) ==
    LET r == QFail(queue, workers[w].job.id, FALSE)
    IN /\ queue' = r.q
       /\ last' = Call("fail", <<workers[w].job.id>>, r)
       /\ hist' = Emitted([hist EXCEPT !.fails[workers[w].job.id] = @ + 1], r)
       /\ workers' = [workers EXCEPT ![w].pc = "delay", ![w].job = NoJob]

WorkerDropFail(w) ==
    /\ workers' = [workers EXCEPT ![w].pc = "delay", ![w].job = NoJob]
    /\ UNCHANGED <<queue, last, hist>>

(* the worker's report of a failed attempt: queue.fail(job.id, error, true), then randomDelay *)
WorkerReportFail(w) ==
    LET r == QFail(queue, workers[w].job.id, TRUE)
    IN /\ queue' = r.q
       /\ last' = Call("fail:retry", <<workers[w].job.id>>, r)
       /\ hist' = Emitted([hist EXCEPT !.fails[workers[w].job.id] = @ + 1], r)
       /\ workers' = [workers EXCEPT ![w].pc = "delay", ![w].job = NoJob]

(* hero.goto or the extraction threw inside processJob *)
FetchFail(w) ==
    /\ workers[w].pc = "fetch"
    /\ WorkerReportFail(w)
    /\ UNCHANGED <<config, scraper, fileHandler, disk, pool, walk, site, calls>>

(* the rejection of addJob reaches the catch of Worker.start *)
ReportThrown(w) ==
    /\ workers[w].pc = "threw"
    /\ WorkerReportFail(w)
    /\ UNCHANGED <<config, scraper, fileHandler, disk, pool, walk, site, calls>>

(* processJob returned: queue.complete(job.id), then randomDelay *)
ReportComplete(w) ==
    /\ workers[w].pc = "saved"
    /\ LET r == QComplete(queue, workers[w].job.id)
       IN /\ queue' = r.q
          /\ last' = Call("complete", <<workers[w].job.id>>, r)
          /\ hist' = Emitted(hist, r)
    /\ workers' = [workers EXCEPT ![w].pc = "delay", ![w].job = NoJob]
    /\ UNCHANGED <<config, scraper, fileHandler, disk, pool, walk, site, calls>>

(* Promise.all(workerPromises) settles: WorkerPool.start returns *)
PoolResolve ==
    /\ pool.isRunning
    /\ \A w \in DOMAIN workers : workers[w].pc = "exited"
    /\ pool' = [pool EXCEPT !.isRunning = FALSE, !.resolved = TRUE]
    /\ UNCHANGED <<config, scraper, queue, fileHandler, disk, workers, walk, site, calls, hist, last>>

WorkerStep(w) ==
    \/ WorkerLoop(w)
    \/ FetchOk(w)
    \/ FetchFail(w)
    \/ ReportComplete(w)

Next ==
    \/ \E jobs \in Batches : Seed(jobs)
    \/ PoolStart
    \/ \E w \in WorkerIds : WorkerStep(w)
    \/ PoolResolve

Spec == Init /\ [][Next]_vars

(* the steps of the harvest: the pool is started once the listing is over,
   the awaits of the workers end (a navigation ends or times out, a timer
   fires) and Promise.all settles *)
Harvest == PoolStart \/ PoolResolve \/ \E w \in WorkerIds : WorkerStep(w)

(* the queue and the workers never read config.retryAttempts: one value of it *)
FairInit == Init /\ config.retryAttempts = 1

(* the event loop runs a continuation that is ready *)
FairSpec ==
    /\ FairInit
    /\ [][Next]_vars
    /\ WF_vars(Harvest)

(* The pool of a configuration with config.workers = n: WorkerPool.init
   creates the workers 1 .. n *)
PoolSizeInit ==
    /\ config = ConfigDefault
    /\ queue = JobQueueNew
    /\ StoreReady
    /\ workers \in { [w \in 1 .. n |-> WorkerNew] : n \in 1 .. NumWorkers }
    /\ pool = PoolNew
    /\ scraper = ScraperNew
    /\ walk = WalkNew
    /\ site = NoSite
    /\ calls = [c \in WorkerIds |-> NoCallInFlight]
    /\ hist = HistNew
    /\ last = NoCall

PoolSizeNext ==
    \/ \E jobs \in Batches : Seed(jobs)
    \/ PoolStart
    \/ \E w \in DOMAIN workers : WorkerStep(w)
    \/ PoolResolve

PoolSizeSpec == PoolSizeInit /\ [][PoolSizeNext]_vars

----------------------------------------------------------------------------
(* Worker.processJob: the record a worker stores for a job.  A job
   descriptor carries the fields the listing page gave it (title, company,
   location, salary: a text, the empty text, or undefined when the page was
   read by parseJobList) and the detail page gives a text or nothing for
   each field. *)

Fields == {"title", "company", "location", "salary"}

(* the four literals extractJobDetails returns for a field it did not find *)
Unknown ==
    [title |-> "unknown title", company |-> "unknown company",
     location |-> "unknown location", salary |-> "unknown salary"]

DetailText ==
    [title |-> "detail title", company |-> "detail company",
     location |-> "detail location", salary |-> "detail salary"]

PreviewText ==
    [title |-> "preview title", company |-> "preview company",
     location |-> "preview location", salary |-> "preview salary"]

Undefined == "undefined"

(* a || b *)
Or(a, b) == IF a # "" /\ a # Undefined THEN a ELSE b

Url(id) == << "https://www.jobthai.com/job/", id >>

(* the return of extractJobDetails for the texts found on the page *)
extractJobDetails(page) ==
    [title    |-> Or(page.title, Unknown.title),
     company  |-> Or(page.company, Unknown.company),
     location |-> Or(page.location, Unknown.location),
     salary   |-> Or(page.salary, Unknown.salary)]

(* a merge in which the value of the listing page wins *)
MergedDataPreviewFirst(job, jobData) ==
    [id       |-> job.id,
     url      |-> job.url,
     title    |-> Or(job.title, jobData.title),
     company  |-> Or(job.company, jobData.company),
     location |-> Or(job.location, jobData.location),
     salary   |-> Or(job.salary, jobData.salary)]

(* mergedData of processJob *)
MergedData(job, jobData) ==
    [id       |-> job.id,
     url      |-> job.url,
     title    |-> IF jobData.title # Unknown.title THEN jobData.title
                  ELSE Or(job.title, Unknown.title),
     company  |-> IF jobData.company # Unknown.company THEN jobData.company
                  ELSE Or(job.company, Unknown.company),
     location |-> IF jobData.location # Unknown.location THEN jobData.location
                  ELSE Or(job.location, Unknown.location),
     salary   |-> IF jobData.salary # Unknown.salary THEN jobData.salary
                  ELSE Or(job.salary, Unknown.salary)]

(* the descriptors phase 1 can enqueue for job 1 *)
Descriptors ==
    { [id |-> 1, attempts |-> 0, url |-> Url(1),
       title |-> t, company |-> c, location |-> l, salary |-> s] :
        t \in {Undefined, "", PreviewText.title},
        c \in {Undefined, "", PreviewText.company},
        l \in {Undefined, "", PreviewText.location},
        s \in {Undefined, "", PreviewText.salary} }

(* the texts the selectors can find on the detail page of the job *)
DetailPages ==
    { [title |-> t, company |-> c, location |-> l, salary |-> s] :
        t \in {"", DetailText.title, Unknown.title},
        c \in {"", DetailText.company, Unknown.company},
        l \in {"", DetailText.location, Unknown.location},
        s \in {"", DetailText.salary, Unknown.salary} }

MergeInit ==
    /\ config = ConfigDefault
    /\ \E job \in Descriptors : queue = [JobQueueNew EXCEPT !.pending = <<job>>]
    /\ StoreReady
    /\ workers = [w \in WorkerIds |-> WorkerNew]
    /\ pool = PoolNew
    /\ scraper = ScraperNew
    /\ walk = WalkNew
    /\ \E page \in DetailPages : site = [pages |-> 0, style |-> "link", detail |-> page]
    /\ calls = [c \in WorkerIds |-> NoCallInFlight]
    /\ hist = [HistNew EXCEPT !.addTrue[1] = 1]
    /\ last = NoCall

(* processJob from the end of its navigation on: extractJobDetails,
   mergedData, addJob *)
ProcessJobOk(w) ==
    /\ workers[w].pc = "fetch"
    /\ LET jobData == extractJobDetails(site.detail)
           a == FHAddJobData(fileHandler, disk, MergedData(workers[w].job, jobData),
                             hist.clock)
       IN /\ fileHandler' = a.fh
          /\ disk' = a.disk
          /\ hist' = IF a.ret THEN [hist EXCEPT !.acked = @ \cup {workers[w].job.id}] ELSE hist
    /\ workers' = [workers EXCEPT ![w].pc = "saved"]
    /\ UNCHANGED <<config, scraper, queue, pool, walk, site, calls, last>>

MergeNext ==
    \/ PoolStart
    \/ \E w \in WorkerIds : WorkerLoop(w)
    \/ \E w \in WorkerIds : ProcessJobOk(w)
    \/ \E w \in WorkerIds : ReportComplete(w)
    \/ PoolResolve

MergeSpec == MergeInit /\ [][MergeNext]_vars

(* the jobs 1 .. n in the order of their ids *)
AllJobIds == [i \in 1 .. MaxJobs |-> i]

(* the harvest on a disk whose writes can fail, from the state in which the
   listing has put every job in the queue *)
FaultInit ==
    /\ config = ConfigDefault
    /\ queue = QAddBulk(JobQueueNew, AllJobIds).q
    /\ StoreReady
    /\ workers = [w \in WorkerIds |-> WorkerNew]
    /\ pool = PoolNew
    /\ scraper = ScraperNew
    /\ walk = WalkNew
    /\ site = NoSite
    /\ calls = [c \in WorkerIds |-> NoCallInFlight]
    /\ hist = CountAdded(HistNew, JobQueueNew, AllJobIds)
    /\ last = Call("addBulk", AllJobIds, QAddBulk(JobQueueNew, AllJobIds))

FaultNext ==
    \/ Harvest
    \/ \E w \in WorkerIds : SaveThrows(w) \/ ReportThrown(w)

FaultSpec == FaultInit /\ [][FaultNext]_vars

(* The harvest with a caller that pauses the queue while jobs are pending,
   resumes it and requests no stop: jobQueue.pause() and jobQueue.resume()
   run between two segments of the workers *)
PoolPause ==
    /\ pool.isRunning
    /\ ~queue.paused /\ queue.pending # <<>>
    /\ queue' = QPause(queue).q
    /\ last' = Call("pause", <<>>, QPause(queue))
    /\ UNCHANGED <<config, scraper, fileHandler, disk, workers, pool, walk, site, calls, hist>>

PoolResume ==
    /\ queue.paused
    /\ queue' = QResume(queue).q
    /\ last' = Call("resume", <<>>, QResume(queue))
    /\ UNCHANGED <<config, scraper, fileHandler, disk, workers, pool, walk, site, calls, hist>>

PauseNext ==
    \/ PoolStart
    \/ \E w \in WorkerIds : WorkerStep(w)
    \/ PoolResolve
    \/ PoolPause
    \/ PoolResume

(* the event loop runs a continuation that is ready; nothing makes the
   caller resume *)
PauseSpec ==
    /\ FaultInit
    /\ [][PauseNext]_vars
    /\ WF_vars(Harvest)

----------------------------------------------------------------------------
(* The file handler called by concurrent callers, over several runs of the
   program on the same output file.  A call of the async addJob or addJobs
   that finds the handler not initialized runs init() and is resumed later;
   the rest of a call is one synchronous segment. *)

(* what the output file holds before the first run *)
InitialFiles ==
    {NoFile, Malformed, Document(<<>>, 0)} \cup { Document(<< [id |-> id] >>, 0) : id \in JobIds }

StoreInit ==
    /\ config = ConfigDefault
    /\ queue = JobQueueNew
    /\ fileHandler = FileHandlerNew
    /\ disk \in InitialFiles
    /\ workers = [w \in WorkerIds |-> WorkerNew]
    /\ pool = PoolNew
    /\ scraper = ScraperNew
    /\ walk = WalkNew
    /\ site = NoSite
    /\ calls = [c \in WorkerIds |-> NoCallInFlight]
    /\ hist = HistNew
    /\ last = NoCall

StoreFrame == UNCHANGED <<config, scraper, queue, workers, pool, walk, site>>

(* the synchronous part of addJob / addJobs from the duplicate check on: the
   value it computes is the value the call returns *)
StoreApply(c, op, ids) ==
    \E a \in {IF op = "addJob" THEN FHAddJob(fileHandler, disk, ids[1], hist.clock)
              ELSE FHAddJobs(fileHandler, disk, ids, hist.clock)} :
        /\ fileHandler' = a.fh
        /\ disk' = a.disk
        /\ calls' = [calls EXCEPT ![c] = NoCallInFlight]
        /\ last' = [op |-> op, arg |-> ids,
                    ret |-> IF op = "addJob" THEN a.ret ELSE a.ret > 0,
                    count |-> IF op = "addJob" THEN 0 ELSE a.ret,
                    job |-> NoJob, ev |-> <<>>, void |-> FALSE]
        /\ hist' = IF op = "addJob" /\ a.ret
                   THEN [hist EXCEPT !.acked = @ \cup {ids[1]}]
                   ELSE hist

(* FileHandler.init called by JobThaiScraper.init *)
InitCall ==
    /\ ~fileHandler.isInitialized
    /\ \E i \in {FHInit(fileHandler, disk, hist.clock)} :
          /\ fileHandler' = i.fh
          /\ disk' = i.disk
    /\ last' = [NoCall EXCEPT !.op = "init", !.void = TRUE]
    /\ UNCHANGED <<calls, hist>>
    /\ StoreFrame

(* a caller calls addJob(job) or addJobs(jobs) *)
StoreCall(c, op, ids) ==
    /\ calls[c].pc = "idle"
    /\ IF fileHandler.isInitialized
       THEN StoreApply(c, op, ids)
       ELSE \E i \in {FHInit(fileHandler, disk, hist.clock)} :
               /\ fileHandler' = i.fh
               /\ disk' = i.disk
               /\ calls' = [calls EXCEPT ![c] = [pc |-> "awaitInit", op |-> op, ids |-> ids]]
               /\ UNCHANGED <<hist, last>>
    /\ StoreFrame

(* await this.init() is over *)
StoreResume(c) ==
    /\ calls[c].pc = "awaitInit"
    /\ StoreApply(c, calls[c].op, calls[c].ids)
    /\ StoreFrame

(* some segment that is about to run would call save() *)
SaveAhead ==
    \/ ~fileHandler.isInitialized
    \/ \E c \in WorkerIds : calls[c].pc = "awaitInit" /\
          \E k \in DOMAIN calls[c].ids : ~FHHasJob(fileHandler, calls[c].ids[k])
    \/ \E c \in WorkerIds : calls[c].pc = "idle" /\
          \E id \in JobIds : ~FHHasJob(fileHandler, id)

(* the process dies between two segments, and the program is run again *)
Crash ==
    /\ hist.runs < MaxRuns
    /\ fileHandler' = FileHandlerNew
    /\ calls' = [c \in WorkerIds |-> NoCallInFlight]
    /\ hist' = [hist EXCEPT !.runs = @ + 1]
    /\ UNCHANGED <<disk, last>>
    /\ StoreFrame

(* the process dies inside fs.writeFileSync, which has truncated the file and
   not written all of the new content; the program is run again *)
CrashInSave ==
    /\ hist.runs < MaxRuns
    /\ SaveAhead
    /\ disk' = Malformed
    /\ fileHandler' = FileHandlerNew
    /\ calls' = [c \in WorkerIds |-> NoCallInFlight]
    /\ hist' = [hist EXCEPT !.runs = @ + 1]
    /\ UNCHANGED last
    /\ StoreFrame

StoreNext ==
    \/ InitCall
    \/ \E c \in WorkerIds, id \in JobIds : StoreCall(c, "addJob", <<id>>)
    \/ \E c \in WorkerIds, ids \in Batches : StoreCall(c, "addJobs", ids)
    \/ \E c \in WorkerIds : StoreResume(c)
    \/ Crash
    \/ CrashInSave

StoreSpec == StoreInit /\ [][StoreNext]_vars

----------------------------------------------------------------------------
(* The file handler called by one caller, one call after the other, with the
   clock.  The clock advances with every write of a file: hist.clock is the
   time of the last write, and a call that writes nothing leaves it. *)

MaxWrites == 4

(* addJob and addJobs called with no other call under way: await this.init()
   when the handler is not initialized, then the rest of the call *)
FHCall(op, fh, d, ids, now) ==
    LET i == IF fh.isInitialized
             THEN [fh |-> fh, disk |-> d, writes |-> 0]
             ELSE FHInit(fh, d, now)
        a == IF op = "addJob"
             THEN FHAddJob(i.fh, i.disk, ids[1], now + i.writes)
             ELSE FHAddJobs(i.fh, i.disk, ids, now + i.writes)
    IN [fh |-> a.fh, disk |-> a.disk, ret |-> a.ret, writes |-> i.writes + a.writes]

CatalogInit ==
    /\ config = ConfigDefault
    /\ queue = JobQueueNew
    /\ fileHandler \in {[FileHandlerNew EXCEPT !.outputPath = path] : path \in {JsonPath, PlainPath}}
    /\ disk \in InitialFiles
    /\ workers = [w \in WorkerIds |-> WorkerNew]
    /\ pool = PoolNew
    /\ scraper = ScraperNew
    /\ walk = WalkNew
    /\ site = NoSite
    /\ calls = [c \in WorkerIds |-> NoCallInFlight]
    /\ hist = HistNew
    /\ last = NoCall

CatalogFrame == UNCHANGED <<config, queue, workers, pool, walk, site, calls>>

(* await fileHandler.init() *)
CatalogInitCall ==
    /\ ~fileHandler.isInitialized
    /\ \E i \in {FHInit(fileHandler, disk, hist.clock + 1)} :
          /\ fileHandler' = i.fh
          /\ disk' = i.disk
          /\ hist' = [hist EXCEPT !.clock = @ + i.writes,
                                  !.before = [fh |-> fileHandler, disk |-> disk, clock |-> hist.clock]]
          /\ last' = [NoCall EXCEPT !.op = "init", !.void = i.ret.void, !.count = i.ret.n]
    /\ UNCHANGED scraper
    /\ CatalogFrame

(* await fileHandler.addJob(job) and await fileHandler.addJobs(jobs) *)
CatalogCall(op, ids) ==
    /\ \E a \in {FHCall(op, fileHandler, disk, ids, hist.clock + 1)} :
          /\ fileHandler' = a.fh
          /\ disk' = a.disk
          /\ hist' = [hist EXCEPT !.clock = @ + a.writes,
                                  !.before = [fh |-> fileHandler, disk |-> disk, clock |-> hist.clock],
                                  !.acked = IF op = "addJob" /\ a.ret THEN @ \cup {ids[1]} ELSE @]
          /\ last' = [NoCall EXCEPT !.op = op, !.arg = ids,
                                    !.ret = IF op = "addJob" THEN a.ret ELSE a.ret > 0,
                                    !.count = IF op = "addJob" THEN 0 ELSE a.ret]
    /\ UNCHANGED scraper
    /\ CatalogFrame

(* await fileHandler.backup() *)
CatalogBackup ==
    /\ hist.clock < MaxWrites
    /\ \E b \in {FHBackup(fileHandler, disk, NoFile, hist.clock + 1)} :
          /\ fileHandler' = b.fh
          /\ disk' = b.disk
          /\ scraper' = [scraper EXCEPT !.backupFile = b.backup,
                                        !.backup = BackupWritten(fileHandler, @)]
          /\ hist' = [hist EXCEPT !.clock = IF Len(fileHandler.jobs) > 0 THEN @ + 1 ELSE @,
                                  !.before = [fh |-> fileHandler, disk |-> disk, clock |-> hist.clock]]
    /\ last' = [NoCall EXCEPT !.op = "backup", !.void = TRUE]
    /\ CatalogFrame

CatalogNext ==
    \/ CatalogInitCall
    \/ \E id \in JobIds : CatalogCall("addJob", <<id>>)
    \/ \E ids \in Batches : CatalogCall("addJobs", ids)
    \/ CatalogBackup

CatalogSpec == CatalogInit /\ [][CatalogNext]_vars

----------------------------------------------------------------------------
(* The listing walk, JobThaiScraper.scrapeJobListings, over a listing site of
   site.pages result pages.  A page is fetched and read by awaits that change
   nothing of the program; what follows the last of them, down to the next
   await (randomDelay) or to the exit of the loop, is one segment. *)

MaxSitePages == 3
MaxMaxPages == 2

(* how a result page links to the next one: an anchor with an href ("link"),
   page-number items with the current one marked active ("numbers"), or no
   pagination element at all ("none") *)
SiteStyles == {"link", "numbers", "none"}

(* the ids of the job links of result page p, in the order of the page; a
   card has several links to its job, so an id can occur more than once *)
PageJobs(p) == << ((p - 1) % MaxJobs) + 1, (p % MaxJobs) + 1, ((p - 1) % MaxJobs) + 1 >>

(* the loop of extractJobsFromPage over the links: a link whose id is in
   processedIds is skipped *)
RECURSIVE KeepFirst(_, _)
KeepFirst(links, processedIds) ==
    IF links = <<>> THEN <<>>
    ELSE IF Head(links) \in processedIds
         THEN KeepFirst(Tail(links), processedIds)
         ELSE <<Head(links)>> \o KeepFirst(Tail(links), processedIds \cup {Head(links)})

(* extractJobsFromPage: the jobs of the links the session finds, and when
   the query of the session throws (heroOk false) the jobs parseJobList
   finds in the html, one for each link *)
extractJobsFromPage(html, heroOk) ==
    IF heroOk THEN KeepFirst(html.jobs, {}) ELSE html.jobs

(* a filter that lets every job through *)
FilterNewAll(jobs, existingIds) == jobs

(* jobs.filter(job => !existingIds.has(job.id)) *)
FilterNew(jobs, existingIds) == SelectSeq(jobs, LAMBDA id : id \notin existingIds)

(* what the selectors of parsePagination and extractJobsFromPage find in the
   html of result page p: the text of the active item (0: no active item), the
   numbers among the pagination items, the href of the next link (0: none) *)
PageHtml(s, p) ==
    [active   |-> IF s.style = "numbers" THEN p ELSE 0,
     numbers  |-> IF s.style = "numbers" THEN 1 .. s.pages ELSE {},
     nextHref |-> IF s.style = "link" /\ p < s.pages THEN p + 1 ELSE 0,
     jobs     |-> PageJobs(p)]

SetMax(S) == CHOOSE m \in S : \A n \in S : n <= m

(* a parsePagination that looks at the next link only *)
parsePaginationLinkOnly(html) ==
    LET currentPage == IF html.active # 0 THEN html.active ELSE 1
        totalPages  == IF html.numbers # {} THEN SetMax(html.numbers) ELSE 1
    IN [currentPage |-> currentPage, totalPages |-> totalPages,
        hasNext |-> html.nextHref # 0, nextPageUrl |-> html.nextHref]

parsePagination(html) ==
    LET currentPage == IF html.active # 0 THEN html.active ELSE 1
        totalPages  == IF html.numbers # {} THEN SetMax(html.numbers) ELSE 1
    IN IF html.nextHref # 0
       THEN [currentPage |-> currentPage, totalPages |-> totalPages,
             hasNext |-> TRUE, nextPageUrl |-> html.nextHref]
       ELSE IF currentPage < totalPages
            THEN [currentPage |-> currentPage, totalPages |-> totalPages,
                  hasNext |-> TRUE, nextPageUrl |-> currentPage + 1]
            ELSE [currentPage |-> currentPage, totalPages |-> totalPages,
                  hasNext |-> FALSE, nextPageUrl |-> 0]

(* a cap test that lets one page more through *)
CapReachedLate(maxPages, pageNum) == maxPages > 0 /\ pageNum > maxPages

(* if (maxPages > 0 && pageNum >= maxPages) break *)
CapReached(maxPages, pageNum) == maxPages > 0 /\ pageNum >= maxPages

(* the catalogs the store holds when the walk begins *)
StoredBefore == { <<>>, << [id |-> 1] >> }

WalkInit ==
    /\ config \in [retryAttempts : 0 .. MaxRetryAttempts, maxPages : 0 .. MaxMaxPages]
    /\ site \in [pages : 1 .. MaxSitePages, style : SiteStyles]
    /\ queue = JobQueueNew
    /\ \E jobs \in StoredBefore :
          /\ fileHandler = [FileHandlerNew EXCEPT !.jobs = jobs, !.isInitialized = TRUE]
          /\ disk = Document(jobs, 0)
    /\ workers = [w \in WorkerIds |-> WorkerNew]
    /\ pool = PoolNew
    /\ scraper = ScraperNew
    /\ walk = WalkNew
    /\ calls = [c \in WorkerIds |-> NoCallInFlight]
    /\ hist = HistNew
    /\ last = NoCall

WalkFrame == UNCHANGED <<config, scraper, fileHandler, disk, workers, pool, site, calls>>

(* the locals of scrapeJobListings(startUrl) at its first await; known
   records the ids the output file d held when the run began *)
WalkBegin(fh, d) ==
    [WalkNew EXCEPT !.pc = "fetch", !.currentUrl = 1, !.pageNum = 1,
                    !.existingIds = FHGetExistingIds(fh),
                    !.known = Ids(ParseJobs(d))]

(* scrapeJobListings(startUrl) up to the first await *)
WalkStart ==
    /\ walk.pc = "new"
    /\ walk' = WalkBegin(fileHandler, disk)
    /\ UNCHANGED <<queue, hist, last>>
    /\ WalkFrame

(* the rest of the try block once the page has been fetched and read: the
   walk, the queue and the history after it *)
WalkPage(wk, q, h, cfg, st, heroOk) ==
    LET html       == PageHtml(st, wk.currentUrl)
        jobs       == extractJobsFromPage(html, heroOk)
        newJobs    == FilterNew(jobs, wk.existingIds)
        r          == QAddBulk(q, newJobs)
        pagination == parsePagination(html)
        seen       == [wk EXCEPT !.existingIds = @ \cup {newJobs[k] : k \in DOMAIN newJobs},
                                 !.processed = @ + 1]
    IN [queue |-> r.q,
        hist  |-> CountAdded(h, q, newJobs),
        last  |-> Call("addBulk", newJobs, r),
        walk  |-> IF CapReached(cfg.maxPages, wk.pageNum)
                  THEN [seen EXCEPT !.pc = "done", !.exit = "cap"]
                  ELSE IF pagination.hasNext /\ pagination.nextPageUrl # 0
                       THEN [seen EXCEPT !.pc = "delay",
                                         !.currentUrl = pagination.nextPageUrl,
                                         !.pageNum = @ + 1]
                       ELSE [seen EXCEPT !.pc = "done", !.currentUrl = 0,
                                         !.exit = "last"]]

(* the page has been fetched and read: the rest of the try block *)
WalkFetchOk(heroOk) ==
    /\ walk.pc = "fetch"
    /\ \E p \in {WalkPage(walk, queue, hist, config, site, heroOk)} :
          /\ queue' = p.queue
          /\ hist' = p.hist
          /\ last' = p.last
          /\ walk' = p.walk
    /\ WalkFrame

(* randomDelay() between two pages is over *)
WalkDelayDone ==
    /\ walk.pc = "delay"
    /\ walk' = [walk EXCEPT !.pc = "fetch"]
    /\ UNCHANGED <<queue, hist, last>>
    /\ WalkFrame

(* the catch block of the loop *)
WalkCatch(wk, cfg) ==
    IF cfg.retryAttempts > 0
    THEN [wk EXCEPT !.pc = "backoff"]
    ELSE [wk EXCEPT !.pc = "done", !.exit = "error"]

(* an await of the try block rejects (navigation timeout, connection
   refused): the catch block *)
WalkFetchFail ==
    /\ walk.pc = "fetch"
    /\ walk' = WalkCatch(walk, config)
    /\ UNCHANGED <<queue, hist, last>>
    /\ WalkFrame

(* delay(5000) of the catch block is over: continue *)
WalkBackoffDone ==
    /\ walk.pc = "backoff"
    /\ walk' = [walk EXCEPT !.pc = "fetch"]
    /\ UNCHANGED <<queue, hist, last>>
    /\ WalkFrame

WalkNext ==
    \/ WalkStart
    \/ \E heroOk \in BOOLEAN : WalkFetchOk(heroOk)
    \/ WalkDelayDone
    \/ WalkFetchFail
    \/ WalkBackoffDone

WalkSpec == WalkInit /\ [][WalkNext]_vars

(* the event loop runs the continuation of the walk when its await settles *)
FairWalkSpec == WalkInit /\ [][WalkNext]_vars /\ WF_vars(WalkNext)

(* The walk with its retries counted: hist.pageRetries is the number of
   times the current page has been fetched again after a failure.  The count
   stops one past config.retryAttempts. *)

RetryFetchOk(heroOk) ==
    /\ walk.pc = "fetch"
    /\ \E p \in {WalkPage(walk, queue, hist, config, site, heroOk)} :
          /\ queue' = p.queue
          /\ hist' = [p.hist EXCEPT !.pageRetries = 0]
          /\ last' = p.last
          /\ walk' = p.walk
    /\ WalkFrame

RetryBackoffDone ==
    /\ walk.pc = "backoff"
    /\ hist.pageRetries <= config.retryAttempts
    /\ walk' = [walk EXCEPT !.pc = "fetch"]
    /\ hist' = [hist EXCEPT !.pageRetries = @ + 1]
    /\ UNCHANGED <<queue, last>>
    /\ WalkFrame

RetryNext ==
    \/ WalkStart
    \/ \E heroOk \in BOOLEAN : RetryFetchOk(heroOk)
    \/ WalkDelayDone
    \/ WalkFetchFail
    \/ RetryBackoffDone

RetrySpec == WalkInit /\ [][RetryNext]_vars

----------------------------------------------------------------------------
(* The whole program: main() of index.js runs init(), start() (the listing
   walk, then the pool if the queue is not empty) and close(), and exits; a
   SIGINT or SIGTERM runs the shutdown handler, stop() then close(), which
   exits too.  What runs between two events of the event loop (the end of a
   navigation, of a timer, of the closing of a session, a signal) is one
   step: awaits on promises that are already settled do not let another
   event in.  ps is the state of the program: a record of scraper, queue,
   workers, pool, walk, hist and last. *)

(* WorkerPool.close() down to await Promise.all: every worker of the pool
   runs close() down to await this.hero.close() *)
CloseBegin(ps, who) ==
    [ps EXCEPT
        !.pool.isRunning = FALSE,
        !.workers = IF ps.pool.closed THEN @
                    ELSE [w \in WorkerIds |->
                            [@[w] EXCEPT !.isRunning = FALSE,
                                         !.hero = IF @ = "closed" THEN "closed" ELSE "closing"]],
        !.scraper.close[who] = "pool"]

(* the final statistics of JobThaiScraper.start: jobQueue.getStats() and
   fileHandler.getCount() *)
FinalStats(q, fh) ==
    [taken |-> TRUE, completed |-> QGetStats(q).completed, failed |-> QGetStats(q).failed,
     stored |-> FHGetCount(fh)]

(* the end of JobThaiScraper.start: the final statistics, the finally, the
   return to main() and main()'s call of close() *)
AfterStart(ps) ==
    CloseBegin([ps EXCEPT !.scraper.isRunning = FALSE, !.scraper.pc = "closing",
                          !.scraper.stats = FinalStats(ps.queue, fileHandler)], "main")

(* WorkerPool.start down to await Promise.all *)
PoolStarted(ps) ==
    LET st == StartWorkers([workers |-> ps.workers, queue |-> ps.queue,
                            hist |-> ps.hist, last |-> ps.last], 1)
    IN [ps EXCEPT !.workers = st.workers, !.queue = st.queue, !.hist = st.hist,
                  !.last = st.last, !.pool.isRunning = TRUE, !.scraper.pc = "harvest"]

(* a start() that runs the pool whatever the queue holds *)
AfterListingAlways(ps) ==
    IF ps.pool.isRunning
    THEN AfterStart(ps)
    ELSE IF ps.pool.closed
         THEN AfterStart([ps EXCEPT !.pool.resolved = TRUE])
         ELSE PoolStarted(ps)

(* JobThaiScraper.start once scrapeJobListings has returned: the pool is
   started if the queue is not empty; a pool whose workers are gone (workers =
   []) resolves at once *)
AfterListing(ps) ==
    IF QIsEmpty(ps.queue) \/ ps.pool.isRunning
    THEN AfterStart(ps)
    ELSE IF ps.pool.closed
         THEN AfterStart([ps EXCEPT !.pool.resolved = TRUE])
         ELSE PoolStarted(ps)

(* the state of the program, and the step to a state of the program *)
Program ==
    [scraper |-> scraper, queue |-> queue, workers |-> workers, pool |-> pool,
     walk |-> walk, hist |-> hist, last |-> last]

Becomes(ps) ==
    /\ scraper' = ps.scraper
    /\ queue' = ps.queue
    /\ workers' = ps.workers
    /\ pool' = ps.pool
    /\ walk' = ps.walk
    /\ hist' = ps.hist
    /\ last' = ps.last

Alive == scraper.exited = "no"

(* main() from scraper.init() to the first navigation of the listing walk *)
RunBoot ==
    /\ Alive /\ scraper.pc = "new"
    /\ \E i \in {FHInit(fileHandler, disk, hist.clock)} :
          /\ fileHandler' = i.fh
          /\ disk' = i.disk
          /\ walk' = WalkBegin(i.fh, disk)
    /\ scraper' = [scraper EXCEPT !.pc = "listing", !.isRunning = TRUE]
    /\ UNCHANGED <<config, queue, workers, pool, site, calls, hist, last>>

(* a listing page has been fetched and read; after the last page start() goes on *)
RunWalkOk(heroOk) ==
    /\ Alive /\ scraper.pc = "listing" /\ walk.pc = "fetch"
    /\ \E p \in {WalkPage(walk, queue, hist, config, site, heroOk)} :
          \E ps \in {[Program EXCEPT !.queue = p.queue, !.hist = p.hist,
                                     !.last = p.last, !.walk = p.walk]} :
             Becomes(IF p.walk.pc = "done" THEN AfterListing(ps) ELSE ps)
    /\ UNCHANGED <<config, fileHandler, disk, site, calls>>

(* the fetch of a listing page threw; when the catch block leaves the loop
   start() goes on *)
RunWalkFail ==
    /\ Alive /\ scraper.pc = "listing" /\ walk.pc = "fetch"
    /\ \E ps \in {[Program EXCEPT !.walk = WalkCatch(walk, config)]} :
          Becomes(IF ps.walk.pc = "done" THEN AfterListing(ps) ELSE ps)
    /\ UNCHANGED <<config, fileHandler, disk, site, calls>>

(* a timer of the listing walk fires *)
RunWalkTimer ==
    /\ Alive /\ scraper.pc = "listing"
    /\ WalkDelayDone \/ WalkBackoffDone

(* Promise.all of WorkerPool.start settles: start() and JobThaiScraper.start
   return and main() calls close() *)
RunPoolResolve ==
    /\ Alive /\ scraper.pc = "harvest"
    /\ \A w \in WorkerIds : workers[w].pc = "exited"
    /\ Becomes(AfterStart([Program EXCEPT !.pool.isRunning = FALSE,
                                          !.pool.resolved = TRUE]))
    /\ UNCHANGED <<config, fileHandler, disk, site, calls>>

(* a Worker.close whose catch block leaves the session in place *)
WorkerClosedLeak(wk, ok) == [wk EXCEPT !.hero = IF ok THEN "closed" ELSE "leaked"]

(* Worker.close after await this.hero.close(): fulfilled (ok) or rejected, the
   rejection is caught and logged, and hero = null *)
WorkerClosed(wk, ok) == [wk EXCEPT !.hero = "closed"]

(* the closing of a worker's session settles *)
WorkerHeroClosed(w, ok) ==
    /\ Alive /\ workers[w].hero = "closing"
    /\ workers' = [workers EXCEPT ![w] = WorkerClosed(@, ok)]
    /\ hist' = [hist EXCEPT !.closeFailed = @ \/ ~ok]
    /\ UNCHANGED <<config, scraper, queue, fileHandler, disk, pool, walk, site, calls, last>>

(* close() after the closing of the listing session (or with none to
   close): hero = null, backup(), return, and the caller's process.exit *)
CloseEnd(sc, fh, who) ==
    [sc EXCEPT !.hero = "closed", !.close[who] = "done",
               !.backup = BackupWritten(fh, @),
               !.backupFile = FHBackup(fh, disk, @, hist.clock).backup,
               !.exited = IF who = "main" /\ sc.pc = "fatal" THEN "error" ELSE who]

(* Promise.all of WorkerPool.close settles: workers = [], and close() goes on
   to close the listing session *)
ClosePoolDone(who) ==
    /\ Alive /\ scraper.close[who] = "pool"
    /\ \A w \in WorkerIds : workers[w].hero # "closing"
    /\ pool' = [pool EXCEPT !.closed = TRUE]
    /\ scraper' = IF scraper.hero = "closed"
                  THEN CloseEnd(scraper, fileHandler, who)
                  ELSE [scraper EXCEPT !.hero = "closing", !.close[who] = "hero"]
    /\ UNCHANGED <<config, queue, fileHandler, disk, workers, walk, site, calls, hist, last>>

(* the closing of the listing session settles: fulfilled (ok) or rejected,
   and the rejection is caught and ignored *)
CloseFinish(who, ok) ==
    /\ Alive /\ scraper.close[who] = "hero"
    /\ scraper' = CloseEnd(scraper, fileHandler, who)
    /\ hist' = [hist EXCEPT !.closeFailed = @ \/ ~ok]
    /\ UNCHANGED <<config, queue, fileHandler, disk, workers, pool, walk, site, calls, last>>

(* JobThaiScraper.stop, WorkerPool.stop and Worker.stop, then jobQueue.pause() *)
Stopped(ps) ==
    [ps EXCEPT
        !.scraper.isRunning = FALSE,
        !.pool.isRunning = FALSE,
        !.workers = IF ps.pool.closed THEN @
                    ELSE [w \in WorkerIds |-> [@[w] EXCEPT !.isRunning = FALSE]],
        !.queue = QPause(ps.queue).q,
        !.last = Call("pause", <<>>, QPause(ps.queue)),
        !.hist.atStop = ps.hist.dequeues]

(* SIGINT or SIGTERM during the listing or the harvest: the shutdown handler
   runs stop() and then close() down to its first await on a session *)
Signal ==
    /\ Alive /\ scraper.pc \in {"listing", "harvest"}
    /\ scraper.close.shutdown = "none"
    /\ Becomes(CloseBegin(Stopped(Program), "shutdown"))
    /\ UNCHANGED <<config, fileHandler, disk, site, calls>>

(* the program is run again on the same output file *)
Rerun ==
    /\ ~Alive
    /\ hist.runs < MaxRuns
    /\ scraper' = ScraperNew
    /\ queue' = JobQueueNew
    /\ fileHandler' = FileHandlerNew
    /\ workers' = [w \in WorkerIds |-> WorkerNew]
    /\ pool' = PoolNew
    /\ walk' = WalkNew
    /\ hist' = [HistNew EXCEPT !.runs = hist.runs + 1, !.acked = hist.acked]
    /\ last' = NoCall
    /\ UNCHANGED <<config, disk, site, calls>>

(* a step of a worker of the running program *)
RunWorker(w) ==
    /\ Alive
    /\ WorkerLoop(w) \/ FetchOk(w) \/ FetchFail(w) \/ ReportComplete(w)

(* main() from its start to process.exit, over several runs *)
RunInit ==
    /\ config = ConfigDefault
    /\ site \in [pages : 1 .. MaxSitePages, style : {"link"}]
    /\ scraper = ScraperNew
    /\ queue = JobQueueNew
    /\ fileHandler = FileHandlerNew
    /\ disk \in {NoFile, Document(<< [id |-> 1] >>, 0)}
    /\ workers = [w \in WorkerIds |-> WorkerNew]
    /\ pool = PoolNew
    /\ walk = WalkNew
    /\ calls = [c \in WorkerIds |-> NoCallInFlight]
    /\ hist = HistNew
    /\ last = NoCall

RunNext ==
    \/ RunBoot
    \/ \E heroOk \in BOOLEAN : RunWalkOk(heroOk)
    \/ RunWalkFail
    \/ RunWalkTimer
    \/ \E w \in WorkerIds : RunWorker(w)
    \/ RunPoolResolve
    \/ \E w \in WorkerIds : WorkerHeroClosed(w, TRUE)
    \/ ClosePoolDone("main")
    \/ CloseFinish("main", TRUE)
    \/ Rerun

RunSpec == RunInit /\ [][RunNext]_vars

(* a step of a worker whose fetches fail only once the closing of its
   session has begun *)
StopWorker(w) ==
    /\ Alive
    /\ \/ WorkerLoop(w)
       \/ FetchOk(w)
       \/ workers[w].hero # "open" /\ FetchFail(w)
       \/ ReportComplete(w)

(* one run of the program on a site of one or two pages, which a signal can
   reach during the listing or the harvest *)
StopInit ==
    /\ RunInit
    /\ site.pages <= 2

StopNext ==
    \/ RunBoot
    \/ \E heroOk \in BOOLEAN : RunWalkOk(heroOk)
    \/ RunWalkFail
    \/ RunWalkTimer
    \/ \E w \in WorkerIds : StopWorker(w)
    \/ RunPoolResolve
    \/ \E w \in WorkerIds : WorkerHeroClosed(w, TRUE)
    \/ \E who \in {"main", "shutdown"} : ClosePoolDone(who) \/ CloseFinish(who, TRUE)
    \/ Signal

StopSpec == StopInit /\ [][StopNext]_vars

(* the catch block of main(): await scraper.close(), down to its first await
   on a session; process.exit(1) follows the close *)
MainCatch(ps) == CloseBegin([ps EXCEPT !.scraper.pc = "fatal"], "main")

(* scraper.init() rejects: FileHandler.init threw, at mkdirSync (nothing is
   loaded) or at the writeFileSync of its save() (the records are loaded; the
   file is as it was, or cut short).  No session exists yet (workerPool and
   hero are null), so the close() of main()'s catch block goes straight to
   backup(), and process.exit(1) follows *)
BootFails(atSave) ==
    /\ Alive /\ scraper.pc = "new"
    /\ hist.faults < MaxFaults
    /\ IF atSave
       THEN /\ fileHandler' = FHInit(fileHandler, disk, hist.clock).fh
            /\ disk' \in {disk, Malformed}
       ELSE /\ disk = NoFile
            /\ UNCHANGED <<fileHandler, disk>>
    /\ \E ps \in {MainCatch([Program EXCEPT
                        !.scraper.hero = "closed",
                        !.workers = [w \in WorkerIds |-> [@[w] EXCEPT !.hero = "closed"]],
                        !.pool.closed = TRUE,
                        !.hist.faults = @ + 1])} :
          Becomes([ps EXCEPT !.scraper = CloseEnd(@, fileHandler', "main")])
    /\ UNCHANGED <<config, site, calls>>

(* an error escapes scrapeJobListings during the listing: the catch of
   start() rethrows it, its finally clears isRunning, and main() catches it *)
ListingThrows ==
    /\ Alive /\ scraper.pc = "listing"
    /\ hist.faults < MaxFaults
    /\ Becomes(MainCatch([Program EXCEPT !.scraper.isRunning = FALSE,
                                         !.walk.pc = "done", !.walk.exit = "threw",
                                         !.hist.faults = @ + 1]))
    /\ UNCHANGED <<config, fileHandler, disk, site, calls>>

(* the start() of worker w rejects at the top of an iteration of its loop:
   Promise.all and workerPool.start() reject at once, the other workers go
   on, the catch of start() rethrows and main() catches the error *)
HarvestThrows(w) ==
    /\ Alive /\ scraper.pc = "harvest"
    /\ hist.faults < MaxFaults
    /\ workers[w].pc \in {"poll", "delay"}
    /\ Becomes(MainCatch([Program EXCEPT !.scraper.isRunning = FALSE,
                                         !.workers[w].pc = "exited",
                                         !.hist.faults = @ + 1]))
    /\ UNCHANGED <<config, fileHandler, disk, site, calls>>

(* one run of main() that an unexpected error can cut short *)
FatalNext ==
    \/ RunBoot
    \/ \E atSave \in BOOLEAN : BootFails(atSave)
    \/ \E heroOk \in BOOLEAN : RunWalkOk(heroOk)
    \/ RunWalkFail
    \/ RunWalkTimer
    \/ ListingThrows
    \/ \E w \in WorkerIds : RunWorker(w)
    \/ \E w \in WorkerIds : HarvestThrows(w)
    \/ RunPoolResolve
    \/ \E w \in WorkerIds : WorkerHeroClosed(w, TRUE)
    \/ ClosePoolDone("main")
    \/ CloseFinish("main", TRUE)

(* main() started on an output file that holds what an earlier run stored *)
FatalInit ==
    /\ config = ConfigDefault
    /\ site \in [pages : 1 .. MaxSitePages, style : {"link"}]
    /\ scraper = ScraperNew
    /\ queue = JobQueueNew
    /\ fileHandler = FileHandlerNew
    /\ disk \in {NoFile, Document(<< [id |-> 1] >>, 0)}
    /\ workers = [w \in WorkerIds |-> WorkerNew]
    /\ pool = PoolNew
    /\ walk = WalkNew
    /\ calls = [c \in WorkerIds |-> NoCallInFlight]
    /\ hist = [HistNew EXCEPT !.acked = Ids(ParseJobs(disk))]
    /\ last = NoCall

FatalSpec == FatalInit /\ [][FatalNext]_vars

(* one run of main() in which the closing of any session can fail *)
CloseNext ==
    \/ RunBoot
    \/ \E heroOk \in BOOLEAN : RunWalkOk(heroOk)
    \/ RunWalkFail
    \/ RunWalkTimer
    \/ \E w \in WorkerIds : RunWorker(w)
    \/ RunPoolResolve
    \/ \E w \in WorkerIds, ok \in BOOLEAN : WorkerHeroClosed(w, ok)
    \/ ClosePoolDone("main")
    \/ \E ok \in BOOLEAN : CloseFinish("main", ok)

CloseSpec == RunInit /\ [][CloseNext]_vars

----------------------------------------------------------------------------
(* The four partitions, one after the other *)

AllJobs(q) == q.pending \o q.processing \o q.completed \o q.failed

(* C1: the pending, processing, completed and failed partitions are pairwise
   disjoint (no id occurs twice in them), and the ids in them are exactly the
   ids whose enqueue returned true, each in exactly one partition. *)
PartitionInvariant ==
    /\ NoDupIds(AllJobs(queue))
    /\ \A id \in JobIds :
          Count(AllJobs(queue), id) = IF hist.addTrue[id] > 0 THEN 1 ELSE 0

(* a retried job is back in pending while another job is completed *)
PartitionWitness ==
    /\ \E i \in DOMAIN queue.pending : queue.pending[i].attempts > 0
    /\ Len(queue.completed) > 0
    /\ last.op = "resume"

(* C5: enqueue of an id returns true at most once; when the id is in any of
   the four partitions it returns false and changes no partition; otherwise it
   appends the job to the back of pending with attempts = 0 and changes no
   other partition. *)
EnqueueDedup ==
    /\ [](\A id \in JobIds : hist.addTrue[id] <= 1)
    /\ [][last'.op = "add" =>
            LET id == last'.arg[1]
            IN IF id \in Ids(AllJobs(queue))
               THEN last'.ret = FALSE /\ queue' = queue
               ELSE /\ last'.ret = TRUE
                    /\ queue' = [queue EXCEPT !.pending =
                                     Append(@, [id |-> id, attempts |-> 0])]]_vars

(* an enqueue of an id that is already completed was rejected *)
EnqueueDedupWitness ==
    /\ last.op = "add"
    /\ last.ret = FALSE
    /\ last.arg[1] \in Ids(queue.completed)
    /\ Len(queue.pending) > 0

----------------------------------------------------------------------------
(* the jobs the workers hold between getNext and complete or fail *)
InFlight(w) == workers[w].job # NoJob

(* C2: no job is in flight at two workers at once, and a job in flight was
   taken out of pending and put in processing by the one getNext call that
   handed it over: it is in processing exactly once and not in pending. *)
NoDoubleHandOut ==
    \A w \in WorkerIds :
        InFlight(w) =>
            /\ \A v \in WorkerIds \ {w} : workers[v].job.id # workers[w].job.id
            /\ Count(queue.processing, workers[w].job.id) = 1
            /\ workers[w].job.id \notin Ids(queue.pending)

(* two workers are in flight at once, one of them on a retried job *)
NoDoubleHandOutWitness ==
    /\ \A w \in {1, 2} : InFlight(w) /\ workers[w].pc = "fetch"
    /\ workers[1].job.attempts = 2

(* C3: a job is in failed only after exactly config.retryAttempts attempts. *)
RetryBound ==
    \A i \in DOMAIN queue.failed : queue.failed[i].attempts = config.retryAttempts

(* C4: with the retry limit 3, a failed job has failed 3 times, has
   attempts = 3 and was dequeued 3 times; no job is dequeued a 4th time; a
   completed job failed k < 3 times before and has attempts = k + 1. *)
RetryScenarios ==
    /\ \A id \in JobIds : hist.dequeues[id] <= 3
    /\ \A i \in DOMAIN queue.failed :
          /\ queue.failed[i].attempts = 3
          /\ hist.fails[queue.failed[i].id] = 3
          /\ hist.dequeues[queue.failed[i].id] = 3
    /\ \A i \in DOMAIN queue.completed :
          /\ hist.fails[queue.completed[i].id] < 3
          /\ queue.completed[i].attempts = hist.fails[queue.completed[i].id] + 1

(* one job failed for good and another completed on its third attempt *)
RetryScenariosWitness ==
    /\ Len(queue.failed) > 0
    /\ \E i \in DOMAIN queue.completed :
          hist.fails[queue.completed[i].id] = 2 /\ queue.completed[i].attempts = 3
    /\ pool.resolved

(* C8: once a job is enqueued, eventually the queue is drained with every
   enqueued job in completed or failed, every worker has exited and the
   pool's start() has resolved. *)
DrainLiveness ==
    (Ids(AllJobs(queue)) # {}) ~>
        /\ pool.resolved
        /\ QIsDone(queue)
        /\ \A id \in JobIds :
              hist.addTrue[id] > 0 => id \in Ids(queue.completed) \cup Ids(queue.failed)
        /\ \A w \in WorkerIds : workers[w].pc = "exited"

(* start() has resolved on a drained queue with every job completed or failed *)
DrainLivenessWitness ==
    /\ pool.resolved
    /\ QIsDone(queue)
    /\ Len(queue.failed) > 0 /\ Len(queue.completed) > 0
    /\ \A w \in WorkerIds : workers[w].pc = "exited"

----------------------------------------------------------------------------
(* C6: neither the records in memory nor the records of the output file hold
   two records with the same id, whatever addJob and addJobs calls the
   callers interleave and however often the program is run again on the file. *)
NoDuplicateRecords ==
    /\ NoDupIds(fileHandler.jobs)
    /\ NoDupIds(ParseJobs(disk))

(* in a later run an addJob of an id that an earlier addJob stored was
   rejected, while another caller's call of the same id awaits its init() *)
NoDuplicateRecordsWitness ==
    /\ hist.runs > 1
    /\ last.op = "addJob" /\ last.ret = FALSE
    /\ last.arg[1] \in hist.acked
    /\ \E c \in WorkerIds : calls[c].pc = "awaitInit" /\ calls[c].ids = last.arg
    /\ Len(ParseJobs(disk)) > 1

(* C7: a handler that is initialized, in the run of the addJob calls or in a
   later run on the same output file, holds every record whose addJob has
   returned true, and so does the output file. *)
CrashSafety ==
    fileHandler.isInitialized =>
        /\ hist.acked \subseteq Ids(fileHandler.jobs)
        /\ hist.acked \subseteq Ids(ParseJobs(disk))

(* C9: the listing walk always terminates, whatever the pages answer, failed
   page fetches included. *)
PaginationTermination == <>(walk.pc = "done")

(* C10: with a page cap maxPages > 0 the walk never processes more than
   maxPages pages, and on a site that offers a next page on each of its first
   maxPages pages a walk that was not aborted by a fetch error has stopped at
   the cap after exactly maxPages pages. *)
PageCap ==
    config.maxPages > 0 =>
        /\ walk.processed <= config.maxPages
        /\ walk.pageNum <= config.maxPages
        /\ (walk.pc = "done" /\ walk.exit # "error"
              /\ site.style # "none" /\ site.pages > config.maxPages)
            => (walk.exit = "cap" /\ walk.processed = config.maxPages)

(* on a site with more pages than the cap, the walk has stopped at a cap of
   two pages, with a next page on offer *)
PageCapWitness ==
    /\ walk.pc = "done" /\ walk.exit = "cap"
    /\ config.maxPages = 2 /\ walk.processed = 2
    /\ site.pages > 2
    /\ parsePagination(PageHtml(site, walk.currentUrl)).hasNext

----------------------------------------------------------------------------
(* C13: getNext returns no job and changes nothing when the queue is paused
   or pending is empty; otherwise it returns the head of pending with its
   attempts raised by exactly 1, removes it from pending and appends it to
   processing; and a job is dequeued for the first time only after every job
   enqueued before it has been dequeued (jobs are enqueued in id order). *)
DequeueContract ==
    [][last'.op = "getNext" =>
         IF queue.paused \/ queue.pending = <<>>
         THEN last'.ret = FALSE /\ last'.job = NoJob /\ queue' = queue
         ELSE /\ last'.job = [Head(queue.pending) EXCEPT !.attempts = @ + 1]
              /\ queue' = [queue EXCEPT !.pending = Tail(@),
                                        !.processing = Append(@, last'.job)]
              /\ last'.job.attempts = 1 =>
                     \A i \in 1 .. (last'.job.id - 1) : hist.dequeues[i] > 0]_vars

(* the second job enqueued was dequeued for the first time while the first,
   retried once, was in flight again, and another getNext found pending empty *)
DequeueContractWitness ==
    /\ last.op = "getNext" /\ last.job = NoJob
    /\ ~queue.paused
    /\ Len(queue.processing) = 2
    /\ queue.processing[1] = [id |-> 1, attempts |-> 2]
    /\ queue.processing[2] = [id |-> 2, attempts |-> 1]

(* the types of the notifications a call emitted *)
EvTypes(ev) == { ev[i].type : i \in DOMAIN ev }

(* the jobs of s whose id is not id, in the order of s *)
Without(s, id) == SelectSeq(s, LAMBDA j : j.id # id)

(* C14: fail(id, error, retryable) on a job in processing removes it from
   processing; if retryable and its attempts are below 3 the job is put at the
   front of pending and a retry notification is emitted, otherwise it is
   appended to failed (after a single attempt when retryable is false); the
   retried jobs of pending are ahead of all fresh ones, so a getNext that
   returns a job while a retried job is pending returns a retried job. *)
FailContract ==
    /\ [](\A i, k \in DOMAIN queue.pending :
            (i < k /\ queue.pending[k].attempts > 0) => queue.pending[i].attempts > 0)
    /\ [][(last'.op \in {"fail", "fail:retry"} /\ last'.arg[1] \in Ids(queue.processing)) =>
            LET id  == last'.arg[1]
                job == CHOOSE j \in { queue.processing[i] : i \in DOMAIN queue.processing } :
                          j.id = id
            IN /\ last'.ret = TRUE
               /\ queue'.processing = Without(queue.processing, id)
               /\ queue'.completed = queue.completed
               /\ IF last'.op = "fail:retry" /\ job.attempts < 3
                  THEN /\ queue'.pending = <<job>> \o queue.pending
                       /\ queue'.failed = queue.failed
                       /\ "job:retry" \in EvTypes(last'.ev)
                       /\ "job:failed" \notin EvTypes(last'.ev)
                  ELSE /\ queue'.failed = Append(queue.failed, job)
                       /\ queue'.pending = queue.pending
                       /\ "job:failed" \in EvTypes(last'.ev)
                       /\ "job:retry" \notin EvTypes(last'.ev)]_vars
    /\ [][(/\ last'.op = "getNext" /\ last'.job # NoJob
           /\ \E i \in DOMAIN queue.pending : queue.pending[i].attempts > 0)
          => last'.job.attempts > 1]_vars

(* a job that failed its second attempt was put in front of a fresh job *)
FailContractWitness ==
    /\ last.op = "fail:retry"
    /\ "job:retry" \in EvTypes(last.ev)
    /\ Len(queue.pending) = 2
    /\ queue.pending[1].id = last.arg[1] /\ queue.pending[1].attempts = 2
    /\ queue.pending[2].attempts = 0

(* C15: complete(id) on a job in processing moves it to completed (the other
   partitions unchanged) and returns true; complete(id) and fail(id) on an id
   that is not in processing return false, change no partition and emit no
   notification. *)
CompleteContract ==
    [][last'.op \in {"complete", "fail", "fail:retry"} =>
         LET id == last'.arg[1]
         IN IF id \notin Ids(queue.processing)
            THEN last'.ret = FALSE /\ queue' = queue /\ last'.ev = <<>>
            ELSE last'.op = "complete" =>
                    /\ last'.ret = TRUE
                    /\ \E i \in DOMAIN queue.processing :
                          /\ queue.processing[i].id = id
                          /\ queue' = [queue EXCEPT
                                          !.processing = Without(@, id),
                                          !.completed = Append(@, queue.processing[i])]
                    /\ "job:completed" \in EvTypes(last'.ev)]_vars

(* complete was refused for a job that waits in pending for its retry while
   another job is in processing *)
CompleteContractWitness ==
    /\ last.op = "complete" /\ last.ret = FALSE
    /\ \E i \in DOMAIN queue.pending :
          queue.pending[i].id = last.arg[1] /\ queue.pending[i].attempts > 0
    /\ Len(queue.processing) > 0

(* C16: while the queue is paused getNext returns no job and changes nothing,
   and no step puts a job in processing; complete and fail on a job in
   processing still take effect while paused (a retried job goes back to
   pending); pause and resume change nothing but the paused flag; and when the
   queue is not paused getNext returns the head of a non-empty pending. *)
PauseContract ==
    /\ [][queue.paused =>
            /\ Ids(queue'.processing) \subseteq Ids(queue.processing)
            /\ last'.op = "getNext" => (last'.job = NoJob /\ queue' = queue)
            /\ (last'.op \in {"complete", "fail", "fail:retry"}
                  /\ last'.arg[1] \in Ids(queue.processing))
               => /\ last'.ret = TRUE
                  /\ last'.arg[1] \notin Ids(queue'.processing)
                  /\ last'.arg[1] \in Ids(queue'.pending) \cup Ids(queue'.completed)
                                        \cup Ids(queue'.failed)
                  /\ queue'.paused]_vars
    /\ [][/\ last'.op = "pause" => queue' = [queue EXCEPT !.paused = TRUE]
          /\ last'.op = "resume" => queue' = [queue EXCEPT !.paused = FALSE]
          /\ (last'.op = "getNext" /\ ~queue.paused /\ queue.pending # <<>>)
                => last'.job.id = Head(queue.pending).id]_vars

(* while the queue was paused with a job pending, a job in processing failed
   and went back to the front of pending *)
PauseContractWitness ==
    /\ queue.paused
    /\ last.op = "fail:retry" /\ last.ret = TRUE
    /\ Len(queue.pending) = 2
    /\ queue.pending[1].id = last.arg[1]
    /\ queue.processing = <<>>

----------------------------------------------------------------------------
(* the ids seeded into the queue *)
Seeded == { id \in JobIds : hist.addTrue[id] > 0 }

(* C12: when the pool has finished a harvest in which no fetch failed, every
   seeded job is completed, none is failed, and the store that was empty at
   the start holds exactly one record per seeded id, in memory and in the
   output file. *)
AllSuccessHarvest ==
    (pool.resolved /\ \A id \in JobIds : hist.fails[id] = 0) =>
        /\ Len(queue.completed) = Cardinality(Seeded)
        /\ Ids(queue.completed) = Seeded
        /\ queue.failed = <<>>
        /\ queue.pending = <<>> /\ queue.processing = <<>>
        /\ Len(fileHandler.jobs) = Cardinality(Seeded)
        /\ Ids(fileHandler.jobs) = Seeded
        /\ ParseJobs(disk) = fileHandler.jobs

(* the pool has finished a harvest of MaxJobs jobs, none of which failed *)
AllSuccessHarvestWitness ==
    /\ pool.resolved
    /\ \A id \in JobIds : hist.fails[id] = 0 /\ hist.dequeues[id] = 1
    /\ Len(queue.completed) = MaxJobs
    /\ Len(fileHandler.jobs) = MaxJobs

(* C17: isDone is true iff pending and processing are both empty; a worker
   leaves its loop only in a step in which getNext returned no job and pending
   and processing are both empty; so pending and processing are empty
   whenever a worker has left its loop and whenever the pool's start() has
   resolved (no stop is requested in this specification). *)
DrainedTermination ==
    /\ [](QIsDone(queue) <=> (queue.pending = <<>> /\ queue.processing = <<>>))
    /\ []((pool.resolved \/ \E w \in WorkerIds : workers[w].pc = "exited")
             => (queue.pending = <<>> /\ queue.processing = <<>>))
    /\ [][\A w \in WorkerIds :
            (workers[w].pc # "exited" /\ workers'[w].pc = "exited") =>
                /\ last'.op = "getNext" /\ last'.job = NoJob
                /\ queue' = queue
                /\ queue.pending = <<>> /\ queue.processing = <<>>]_vars

(* the first worker has left its loop on the drained queue and the second,
   which reported the last job, has not polled yet *)
DrainedTerminationWitness ==
    /\ workers[1].pc = "exited"
    /\ workers[2].pc = "delay"
    /\ ~pool.resolved
    /\ last.op = "getNext" /\ last.job = NoJob
    /\ Len(queue.failed) > 0

(* C18: every dequeue of a job is answered by exactly one complete or fail
   of the worker that holds it: the jobs in processing are the jobs in flight
   at the workers, a worker that waits, polls or has exited holds none, and
   the dequeues of a job are its reported failures plus its completion plus
   its stay in processing; a worker reports complete only after addJob has
   put the record in the catalog, and reports fail(id, error, true) when the
   fetch, the extraction or the write of the record threw. *)
ReportedOnce ==
    /\ [](/\ Ids(queue.processing) = { workers[w].job.id : w \in { v \in WorkerIds : InFlight(v) } }
          /\ \A w \in WorkerIds :
                InFlight(w) <=> workers[w].pc \in {"fetch", "saved", "threw"}
          /\ \A id \in JobIds :
                hist.dequeues[id] = hist.fails[id] + Count(queue.completed, id)
                                      + Count(queue.processing, id)
          /\ Ids(queue.completed) \subseteq Ids(fileHandler.jobs))
    /\ [][\A w \in WorkerIds :
            (InFlight(w) /\ workers'[w].job # workers[w].job) =>
                /\ workers'[w].job = NoJob
                /\ last'.arg = << workers[w].job.id >>
                /\ last'.ret = TRUE
                /\ last'.op = IF workers[w].pc = "saved" THEN "complete" ELSE "fail:retry"
                /\ workers[w].job.id \notin Ids(queue'.processing)]_vars

(* a job whose write threw on its first attempt was reported failed, and is
   completed after its second attempt while another job failed for good *)
ReportedOnceWitness ==
    /\ hist.faults > 0
    /\ last.op = "complete" /\ last.ret = TRUE
    /\ hist.fails[last.arg[1]] = 1 /\ hist.dequeues[last.arg[1]] = 2
    /\ Len(queue.failed) > 0

----------------------------------------------------------------------------
(* the ids the pages of the listing site show *)
SiteIds(st) == UNION { { PageJobs(p)[k] : k \in DOMAIN PageJobs(p) } : p \in 1 .. st.pages }

(* C11: in a run of the whole program after the first, on the same output
   file, whose listing pages show no id that the file did not hold when the
   run began, no job is enqueued at any time and the catalog, in memory and
   in the file, keeps exactly the records it had. *)
IdempotentRerun ==
    (hist.runs > 1 /\ scraper.pc # "new" /\ SiteIds(site) \subseteq walk.known) =>
        /\ AllJobs(queue) = <<>>
        /\ \A id \in JobIds : hist.addTrue[id] = 0 /\ hist.dequeues[id] = 0
        /\ Ids(fileHandler.jobs) = walk.known
        /\ Len(fileHandler.jobs) = Cardinality(walk.known)
        /\ ParseJobs(disk) = fileHandler.jobs

(* the second run has walked every page of a site of several pages, all of
   whose ids the first run had stored, and has closed and exited *)
IdempotentRerunWitness ==
    /\ hist.runs = 2
    /\ scraper.exited = "main" /\ scraper.backup
    /\ SiteIds(site) \subseteq walk.known
    /\ walk.known = JobIds
    /\ site.pages > 1 /\ walk.processed = site.pages
    /\ Len(fileHandler.jobs) = MaxJobs

----------------------------------------------------------------------------
(* C19: cancellation is cooperative: a job in flight at a worker is not
   pre-empted, neither by stop() nor by the close and exit that follow a stop
   signal: while a worker holds a job, its session is open and the process is
   alive; and no job is dequeued once the stop has been handled. *)
CooperativeCancel ==
    /\ \A w \in WorkerIds :
          InFlight(w) => (workers[w].hero = "open" /\ scraper.exited = "no")
    /\ scraper.close.shutdown # "none" => hist.dequeues = hist.atStop

(* C20: once the stop signal has been handled no job is dequeued, and when
   the shutdown handler has finished the queue is paused, the pool and every
   worker are stopped, the session of every worker and the listing session
   are released, and the backup has been written (backup() writes nothing
   for an empty catalog). *)
StopClean ==
    /\ scraper.close.shutdown # "none" => (queue.paused /\ hist.dequeues = hist.atStop)
    /\ scraper.exited = "shutdown" =>
          /\ queue.paused
          /\ ~pool.isRunning
          /\ \A w \in WorkerIds : ~workers[w].isRunning /\ workers[w].hero = "closed"
          /\ scraper.hero = "closed"
          /\ scraper.backup \/ fileHandler.jobs = <<>>

----------------------------------------------------------------------------
(* C21: an error of the closing of a driver session is swallowed: when the
   closing of some session has thrown and close() is over, close() has
   returned (it has not thrown), the session of every worker and the listing
   session are released, and the backup has been written after them
   (backup() writes nothing for an empty catalog); and while a session is
   still to be released no backup is written. *)
CloseErrorsSwallowed ==
    /\ (hist.closeFailed /\ scraper.exited # "no") =>
          /\ scraper.close.main = "done" /\ scraper.exited = "main"
          /\ \A w \in WorkerIds : workers[w].hero = "closed"
          /\ scraper.hero = "closed"
          /\ scraper.backup \/ fileHandler.jobs = <<>>
    /\ scraper.backup =>
          /\ \A w \in WorkerIds : workers[w].hero = "closed"
          /\ scraper.hero = "closed"

(* the closing of a session threw, and the program has released the
   sessions, written the backup of a catalog of several records and exited *)
CloseErrorsSwallowedWitness ==
    /\ hist.closeFailed
    /\ scraper.exited = "main" /\ scraper.backup
    /\ \A w \in WorkerIds : workers[w].hero = "closed"
    /\ Len(fileHandler.jobs) > 1

----------------------------------------------------------------------------
(* C22: the order of a run of main() that no signal and no fatal error cuts
   short: the store is initialized before the listing walk starts; no job is
   dequeued before the walk is over; the pool is started only with jobs in
   the queue; the final statistics are taken once the pool has drained (they
   are the final counts), no session is closed before them, and the backup is
   written after every session is closed. *)
OrchestrationOrder ==
    /\ walk.pc # "new" => fileHandler.isInitialized
    /\ (\E id \in JobIds : hist.dequeues[id] > 0) => walk.pc = "done"
    /\ (pool.isRunning \/ pool.resolved \/ \E w \in WorkerIds : workers[w].pc # "new") =>
          (walk.pc = "done" /\ AllJobs(queue) # <<>>)
    /\ scraper.stats.taken =>
          /\ walk.pc = "done"
          /\ QIsDone(queue) /\ ~pool.isRunning
          /\ \A w \in WorkerIds : workers[w].pc \in {"new", "exited"}
          /\ scraper.stats = FinalStats(queue, fileHandler)
    /\ (scraper.hero # "open" \/ \E w \in WorkerIds : workers[w].hero # "open") =>
          scraper.stats.taken
    /\ scraper.backup =>
          (scraper.hero = "closed" /\ \A w \in WorkerIds : workers[w].hero = "closed")

(* a run that stored a record, gave up another job, closed and exited *)
OrchestrationOrderWitness ==
    /\ scraper.exited = "main" /\ scraper.backup
    /\ scraper.stats.completed > 0 /\ scraper.stats.failed > 0
    /\ site.pages > 1 /\ walk.processed = site.pages

----------------------------------------------------------------------------
(* the teardown that precedes the exit of a run a fatal error cut short:
   close() has returned, every session is released and the backup written
   (backup() writes nothing for an empty catalog) *)
FatalTeardown ==
    scraper.exited = "error" =>
        /\ scraper.close.main = "done"
        /\ scraper.hero = "closed"
        /\ \A w \in WorkerIds : workers[w].hero = "closed"
        /\ scraper.backup \/ fileHandler.jobs = <<>>

(* C23: when a run that an uncaught error cut short (in the initialization,
   the listing or the harvest) exits, the teardown has taken place and the
   backup is written, and every record stored before the error, by this run
   or an earlier one, is in the catalog. *)
FatalKeepsWork ==
    /\ FatalTeardown
    /\ scraper.exited = "error" => hist.acked \subseteq Ids(ParseJobs(disk))

----------------------------------------------------------------------------
(* C24: a listing page whose fetch fails is fetched again at most
   config.retryAttempts times, the page number does not advance on a failure
   (it is one more than the number of pages read), and when the walk has
   given up every job enqueued from the pages before is in the queue. *)
PageRetryBudget ==
    /\ hist.pageRetries <= config.retryAttempts
    /\ walk.pc \in {"fetch", "backoff"} => walk.pageNum = walk.processed + 1
    /\ walk.exit = "error" =>
          \A id \in JobIds : hist.addTrue[id] > 0 => id \in Ids(queue.pending)

----------------------------------------------------------------------------
(* C25: the listing walk enqueues no id that the store held when the walk
   began, enqueues no id twice (an id shown twice by a page, or by two pages,
   is enqueued once), and enqueues exactly once every other id shown by a
   page it has read. *)
WalkDedup ==
    /\ \A id \in walk.known :
          hist.addTrue[id] = 0 /\ Count(AllJobs(queue), id) = 0
    /\ \A id \in JobIds :
          hist.addTrue[id] <= 1 /\ Count(AllJobs(queue), id) <= 1
    /\ \A p \in 1 .. walk.processed : \A k \in DOMAIN PageJobs(p) :
          PageJobs(p)[k] \notin walk.known =>
              /\ hist.addTrue[PageJobs(p)[k]] = 1
              /\ Count(queue.pending, PageJobs(p)[k]) = 1

(* the walk has read two pages on a store that held a record: the last page
   showed an id twice in the jobs it extracted and ids of the page before,
   and only new ids are in the queue *)
WalkDedupWitness ==
    /\ walk.known # {} /\ walk.processed >= 2
    /\ last.op = "addBulk"
    /\ Len(queue.pending) > 0
    /\ \E p \in 1 .. walk.processed - 1 : \E k \in DOMAIN PageJobs(p) :
          /\ PageJobs(p)[k] \notin walk.known
          /\ \E j \in DOMAIN PageJobs(walk.processed) :
                PageJobs(walk.processed)[j] = PageJobs(p)[k]

----------------------------------------------------------------------------
(* what init() does to the handler and the file: it does not fail (the
   handler is initialized), a file JSON.parse rejects leaves the store
   empty, a document gives exactly its records, and the file is a document
   of the records *)
InitLoads ==
    /\ fileHandler.isInitialized
    /\ hist.before.disk.kind = "malformed" => fileHandler.jobs = <<>>
    /\ hist.before.disk.kind = "doc" => fileHandler.jobs = hist.before.disk.jobs
    /\ disk.kind = "doc" /\ disk.jobs = fileHandler.jobs

(* C26 as stated: init() on a file of malformed content does not fail and
   the store starts empty, on a well-formed file it loads exactly the
   records of the file, and in both cases it returns the number of records
   it recovered. *)
InitReturnsCount ==
    last.op = "init" =>
        /\ InitLoads
        /\ ~last.void /\ last.count = Len(fileHandler.jobs)

(* C26 amended: init() on a file of malformed content does not fail and the
   store starts empty, on a well-formed file it loads exactly the records of
   the file; in both cases it returns nothing, and the number of records it
   recovered is what getCount() returns after it. *)
InitContract ==
    last.op = "init" =>
        /\ InitLoads
        /\ last.void
        /\ FHGetCount(fileHandler) = Len(ParseJobs(hist.before.disk))

(* init() has run on a file of malformed content *)
InitContractWitness ==
    /\ last.op = "init"
    /\ hist.before.disk.kind = "malformed"
    /\ fileHandler.isInitialized /\ fileHandler.jobs = <<>>
    /\ disk.kind = "doc"

----------------------------------------------------------------------------
(* the records the handler held when the last call began, once the init()
   the call starts with (on a handler not initialized) has loaded the file *)
RecordsBefore ==
    IF hist.before.fh.isInitialized \/ hist.before.disk.kind = "absent"
    THEN hist.before.fh.jobs
    ELSE ParseJobs(hist.before.disk)

(* metadata.lastUpdated of a file, 0 when it has none *)
LastUpdated(d) ==
    IF d.kind = "doc" /\ "lastUpdated" \in DOMAIN d THEN d.lastUpdated ELSE 0

(* C27: addJob of an id the store holds returns false and writes nothing:
   the records in memory, the file and its metadata (lastUpdated included)
   are as before the call, and the clock of the file has not moved; addJob
   of a new id returns true, appends the record after the records held and
   rewrites the file as the document of all the records, at the time of the
   call. *)
AddJobContract ==
    last.op = "addJob" =>
        IF last.arg[1] \in Ids(RecordsBefore)
        THEN /\ last.ret = FALSE
             /\ fileHandler.jobs = RecordsBefore
             /\ hist.before.fh.isInitialized =>
                   /\ fileHandler = hist.before.fh
                   /\ disk = hist.before.disk
        ELSE /\ last.ret = TRUE
             /\ fileHandler.jobs = Append(RecordsBefore, [id |-> last.arg[1]])
             /\ disk = Document(fileHandler.jobs, hist.clock)
             /\ LastUpdated(disk) > LastUpdated(hist.before.disk)

(* addJob of an id that an earlier addJob had stored was refused, on a store
   of two records whose file the calls before had written *)
AddJobContractWitness ==
    /\ last.op = "addJob" /\ last.ret = FALSE
    /\ last.arg[1] \in hist.acked
    /\ hist.before.fh.isInitialized
    /\ Len(fileHandler.jobs) > 1
    /\ LastUpdated(disk) > 1

----------------------------------------------------------------------------
(* the records of the ids of a batch *)
Records(ids) == [k \in DOMAIN ids |-> [id |-> ids[k]]]

(* C28: addJobs appends, in the order of the batch, a record for every id of
   the batch that the store does not hold and that no earlier item of the
   batch has; it returns the number of records it appended, which is the
   growth of the record count; and it writes the file once, after the batch,
   when it appended a record and not at all when it did not. *)
AddJobsContract ==
    last.op = "addJobs" =>
        /\ fileHandler.jobs =
              RecordsBefore \o Records(KeepFirst(FilterNew(last.arg, Ids(RecordsBefore)), {}))
        /\ last.count = FHGetCount(fileHandler) - Len(RecordsBefore)
        /\ last.count > 0 => disk = Document(fileHandler.jobs, hist.clock)
        /\ hist.before.fh.isInitialized =>
              /\ hist.clock - hist.before.clock = IF last.count > 0 THEN 1 ELSE 0
              /\ last.count = 0 => disk = hist.before.disk

(* addJobs of a batch of two ids, one of them stored before, has appended
   one record to a store the calls before had written *)
AddJobsContractWitness ==
    /\ last.op = "addJobs" /\ last.count = 1
    /\ Len(last.arg) = 2 /\ last.arg[1] # last.arg[2]
    /\ hist.before.fh.isInitialized /\ Len(hist.before.fh.jobs) > 0
    /\ hist.clock > 1

----------------------------------------------------------------------------
(* C29: once the handler is initialized the output file is, after every
   save, a document whose metadata.totalJobs is the number of its records
   and whose records are the records in memory, in the same order: every
   change of the records in memory is written in the segment that makes it. *)
SavedCatalog ==
    fileHandler.isInitialized =>
        /\ disk.kind = "doc"
        /\ disk.totalJobs = Len(disk.jobs)
        /\ disk.jobs = fileHandler.jobs

(* in a later run on the file, a batch has been added to the records loaded
   while another caller's call awaits its init() *)
SavedCatalogWitness ==
    /\ hist.runs > 1
    /\ fileHandler.isInitialized
    /\ last.op = "addJobs" /\ last.count > 0
    /\ Len(fileHandler.jobs) > 1
    /\ \E c \in WorkerIds : calls[c].pc = "awaitInit"

----------------------------------------------------------------------------
(* C30: backup() of a catalog with records writes a second file whose
   records are the records of the catalog, and leaves the output file and
   the records in memory as they were; backup() of an empty catalog writes
   nothing. *)
BackupContract ==
    last.op = "backup" =>
        /\ fileHandler = hist.before.fh
        /\ disk = hist.before.disk
        /\ IF Len(fileHandler.jobs) = 0
           THEN scraper.backupFile = NoFile /\ hist.clock = hist.before.clock
           ELSE /\ scraper.backupFile.kind = "doc"
                /\ scraper.backupFile.jobs = fileHandler.jobs

----------------------------------------------------------------------------
(* C31: a job in completed or failed stays in that partition, is not
   dequeued again and no enqueue of its id returns true; a job that fail
   puts back to pending is the job that was in processing, with the same id
   and the same attempts. *)
TerminalPartitions ==
    [][\A id \in JobIds :
          /\ id \in Ids(queue.completed) =>
                /\ id \in Ids(queue'.completed)
                /\ hist'.dequeues[id] = hist.dequeues[id]
                /\ hist'.addTrue[id] = hist.addTrue[id]
          /\ id \in Ids(queue.failed) =>
                /\ id \in Ids(queue'.failed)
                /\ hist'.dequeues[id] = hist.dequeues[id]
                /\ hist'.addTrue[id] = hist.addTrue[id]
          /\ (id \in Ids(queue.processing) /\ id \in Ids(queue'.pending)) =>
                queue'.pending[FindIndex(queue'.pending, id)]
                    = queue.processing[FindIndex(queue.processing, id)]]_vars

(* the enqueue of an id that is in failed after three attempts is rejected,
   while the other job is in completed after a retry *)
TerminalPartitionsWitness ==
    /\ last.op = "add" /\ ~last.ret
    /\ \E i \in DOMAIN queue.failed :
          queue.failed[i].id = last.arg[1] /\ queue.failed[i].attempts = RetryLimit
    /\ \E i \in DOMAIN queue.completed : queue.completed[i].attempts = 2

----------------------------------------------------------------------------
(* C32: the jobs in processing are never more than the workers of the pool
   (config.workers of them), and they are the jobs the workers hold, one
   job a worker at most. *)
RequestConcurrency ==
    /\ Len(queue.processing) <= Len(workers)
    /\ Len(queue.processing) = Cardinality({ w \in DOMAIN workers : InFlight(w) })
    /\ Ids(queue.processing) = { workers[w].job.id : w \in { v \in DOMAIN workers : InFlight(v) } }

(* the only worker of a pool holds a job while another job waits in pending *)
RequestConcurrencyWitness ==
    /\ Len(workers) = 1
    /\ InFlight(1) /\ workers[1].pc = "fetch"
    /\ Len(queue.processing) = 1
    /\ Len(queue.pending) > 0

----------------------------------------------------------------------------
(* result page p of site s offers no way to a next page: no next link, and
   no page number above the current one in its pagination controls *)
NoNextAffordance(s, p) == s.style = "none" \/ p >= s.pages

(* C33 as stated: the walk is over only when the last page read offers no
   next page and the configured cap (none when maxPages = 0) is reached as
   well, or when the ceiling on the number of pages is hit. *)
WalkEndsAtLastAndCap ==
    walk.pc = "done" =>
        \/ /\ walk.processed = walk.pageNum
           /\ NoNextAffordance(site, walk.pageNum)
           /\ config.maxPages > 0 /\ walk.pageNum >= config.maxPages
        \/ walk.processed >= 500

(* C33: the walk is over only when the configured cap (maxPages > 0) is
   reached by the page just read, or when the page just read offers no next
   page, or when the fetch of a page failed with retryAttempts = 0. *)
WalkEnds ==
    walk.pc = "done" =>
        \/ /\ walk.processed = walk.pageNum
           /\ config.maxPages > 0 /\ walk.pageNum >= config.maxPages
        \/ /\ walk.processed = walk.pageNum
           /\ NoNextAffordance(site, walk.pageNum)
        \/ /\ walk.processed = walk.pageNum - 1
           /\ config.retryAttempts = 0

(* a walk without a cap is over after the last of the three pages of a site
   with page numbers *)
WalkEndsWitness ==
    /\ walk.pc = "done"
    /\ config.maxPages = 0
    /\ site.style = "numbers" /\ site.pages = 3
    /\ walk.processed = 3 /\ walk.pageNum = 3

----------------------------------------------------------------------------
(* the value the specification gives a field of the stored record *)
Merged(detail, preview, unknown) ==
    IF detail # unknown THEN detail
    ELSE IF preview # "" /\ preview # Undefined THEN preview
    ELSE unknown

(* C34: in every stored record, each of title, company, location and salary
   is the value of the detail page unless that is the unknown literal of the
   field, then the value of the listing page if it has one, else the
   literal; id and url are those of the job descriptor. *)
FieldMerge ==
    \A i \in DOMAIN fileHandler.jobs :
        \A k \in DOMAIN AllJobs(queue) :
            LET rec    == fileHandler.jobs[i]
                job    == AllJobs(queue)[k]
                detail == extractJobDetails(site.detail)
            IN rec.id = job.id =>
                  /\ rec.url = job.url
                  /\ \A f \in Fields : rec[f] = Merged(detail[f], job[f], Unknown[f])
                  /\ disk.jobs[i] = rec

(* the stored record of a completed job has the title of the detail page,
   the company of the listing page and the unknown literal as location *)
FieldMergeWitness ==
    /\ Len(queue.completed) = 1
    /\ Len(fileHandler.jobs) = 1
    /\ fileHandler.jobs[1].title = DetailText.title
    /\ site.detail.company = "" /\ fileHandler.jobs[1].company = PreviewText.company
    /\ site.detail.location = Unknown.location /\ fileHandler.jobs[1].location = Unknown.location
    /\ site.detail.salary = "" /\ queue.completed[1].salary = Undefined

----------------------------------------------------------------------------
(* the queue call of a step emits an event of this type, for this id *)
Emits(type, id) ==
    /\ queue' # queue
    /\ \E i \in DOMAIN last'.ev : last'.ev[i].type = type /\ last'.ev[i].id = id

(* the job with this id goes from one partition to another in a step *)
Moves(id, from, to) ==
    /\ id \in Ids(queue[from]) /\ id \notin Ids(queue'[from])
    /\ id \in Ids(queue'[to]) /\ id \notin Ids(queue[to])

(* C35: queue:done is emitted only by a call that leaves pending and
   processing empty, with the sizes of completed and failed as its counts,
   and at most once while the pool harvests; job:started, job:completed,
   job:retry and job:failed are emitted only by a call that moves the job
   between the two partitions the event names. *)
NotificationsProjection ==
    /\ [](hist.done <= 1)
    /\ [][\A i \in DOMAIN last'.ev :
            (queue' # queue /\ last'.ev[i].type = "queue:done") =>
                /\ Len(queue'.pending) = 0 /\ Len(queue'.processing) = 0
                /\ last'.ev[i].completed = Len(queue'.completed)
                /\ last'.ev[i].failed = Len(queue'.failed)]_vars
    /\ [][\A id \in JobIds :
            /\ Emits("job:started", id) => Moves(id, "pending", "processing")
            /\ Emits("job:completed", id) => Moves(id, "processing", "completed")
            /\ Emits("job:retry", id) => Moves(id, "processing", "pending")
            /\ Emits("job:failed", id) => Moves(id, "processing", "failed")]_vars

(* queue:done has been emitted, by the call that failed the last job for
   good, with one job completed and one failed *)
NotificationsProjectionWitness ==
    /\ hist.done = 1
    /\ last.op = "fail:retry"
    /\ \E i \in DOMAIN last.ev :
          last.ev[i].type = "queue:done" /\ last.ev[i].completed = 1 /\ last.ev[i].failed = 1
    /\ \E i \in DOMAIN last.ev : last.ev[i].type = "job:failed"

----------------------------------------------------------------------------
(* C36: every job in completed has a record with its id in the output
   file. *)
CompletedDurable ==
    \A i \in DOMAIN queue.completed : queue.completed[i].id \in Ids(ParseJobs(disk))

----------------------------------------------------------------------------
(* C37: the attempts of every job is the number of times getNext returned
   it: 0 for a pending job never dequeued, at least 1 for a job in
   processing, completed or failed, and never more than 3. *)
AttemptsInvariant ==
    /\ \A i \in DOMAIN AllJobs(queue) :
          /\ AllJobs(queue)[i].attempts = hist.dequeues[AllJobs(queue)[i].id]
          /\ AllJobs(queue)[i].attempts <= 3
    /\ \A i \in DOMAIN queue.pending :
          hist.dequeues[queue.pending[i].id] = 0 => queue.pending[i].attempts = 0
    /\ \A i \in DOMAIN queue.processing : queue.processing[i].attempts >= 1
    /\ \A i \in DOMAIN queue.completed : queue.completed[i].attempts >= 1
    /\ \A i \in DOMAIN queue.failed : queue.failed[i].attempts >= 1

(* a job is in failed after three dequeues, by a fail that was not to be
   retried or by the third fail, and the other waits in pending after one *)
AttemptsInvariantWitness ==
    /\ \E i \in DOMAIN queue.failed : queue.failed[i].attempts = 3
    /\ \E i \in DOMAIN queue.pending :
          queue.pending[i].attempts = 1 /\ hist.dequeues[queue.pending[i].id] = 1
    /\ last.op \in {"fail", "fail:retry"}

----------------------------------------------------------------------------
(* the number of add calls that returned true, for the ids 1 .. n *)
RECURSIVE Enqueued(_)
Enqueued(n) == IF n = 0 THEN 0 ELSE hist.addTrue[n] + Enqueued(n - 1)

(* C38: getStats reports the length of each partition and the paused flag;
   its total is the number of enqueues that returned true, and no call other
   than an enqueue changes it. *)
Conservation ==
    /\ [](/\ QGetStats(queue).pending = Len(queue.pending)
          /\ QGetStats(queue).processing = Len(queue.processing)
          /\ QGetStats(queue).completed = Len(queue.completed)
          /\ QGetStats(queue).failed = Len(queue.failed)
          /\ QGetStats(queue).paused = queue.paused
          /\ QGetStats(queue).total = Enqueued(MaxJobs))
    /\ [][last'.op \notin {"add", "addBulk"} =>
            QGetStats(queue').total = QGetStats(queue).total]_vars

(* two jobs were enqueued; one is in failed and the other in processing of a
   queue that has just been paused *)
ConservationWitness ==
    /\ QGetStats(queue).total = 2
    /\ QGetStats(queue).failed = 1 /\ QGetStats(queue).processing = 1
    /\ QGetStats(queue).paused
    /\ last.op = "pause"

----------------------------------------------------------------------------
(* C39: while the queue is paused with a job pending and the pool running,
   no worker has left its loop and start() has not resolved, and no step
   taken while it stays paused changes that; when the queue is resumed and
   from then on stays so, every enqueued job ends in completed or failed and
   start() resolves. *)
PausedPoolWaits ==
    /\ []((pool.isRunning /\ queue.paused /\ queue.pending # <<>>) =>
            /\ \A w \in WorkerIds : workers[w].pc # "exited"
            /\ ~pool.resolved)
    /\ [][(queue.paused /\ queue'.paused /\ queue.pending # <<>>) =>
            /\ \A w \in WorkerIds : workers'[w].pc = "exited" => workers[w].pc = "exited"
            /\ pool'.resolved = pool.resolved]_vars
    /\ <>[](~queue.paused) =>
            <>(/\ pool.resolved
               /\ QIsDone(queue)
               /\ \A id \in JobIds :
                     hist.addTrue[id] > 0 => id \in Ids(queue.completed) \cup Ids(queue.failed))

(* the queue is paused with a job pending, and a worker of the running pool
   has polled it and got no job *)
PausedPoolWaitsWitness ==
    /\ pool.isRunning
    /\ queue.paused /\ queue.pending # <<>>
    /\ \E i \in DOMAIN queue.pending : queue.pending[i].attempts = 2
    /\ \E w \in WorkerIds : workers[w].pc = "poll"
    /\ last.op = "getNext" /\ last.job = NoJob

----------------------------------------------------------------------------
(* C40: a retryFailed call empties failed and appends its jobs, in their
   order and with attempts 0, behind the jobs pending was holding, returns the
   number of jobs it moved, leaves processing, completed, the paused flag and
   the jobs pending was holding as they were, and keeps the four partitions
   without a repeated id; a job it moved is then handed out at most 3 times:
   a retrying fail puts it back in pending after the first and the second, and
   in failed after the third. *)
RetryFailedRequeues ==
    /\ [][last'.op = "retryFailed" =>
            /\ queue'.pending = queue.pending \o ResetAttempts(queue.failed)
            /\ SubSeq(queue'.pending, 1, Len(queue.pending)) = queue.pending
            /\ \A i \in DOMAIN queue.failed :
                  /\ queue'.pending[Len(queue.pending) + i].id = queue.failed[i].id
                  /\ queue'.pending[Len(queue.pending) + i].attempts = 0
            /\ queue'.failed = <<>>
            /\ last'.count = Len(queue.failed)
            /\ queue'.processing = queue.processing
            /\ queue'.completed = queue.completed
            /\ queue'.paused = queue.paused
            /\ NoDupIds(AllJobs(queue)) => NoDupIds(AllJobs(queue'))]_vars
    /\ [](/\ NoDupIds(AllJobs(queue))
          /\ \A i \in DOMAIN AllJobs(queue) :
                AllJobs(queue)[i].id \in hist.requeued =>
                   /\ AllJobs(queue)[i].attempts = hist.dequeues[AllJobs(queue)[i].id]
                   /\ AllJobs(queue)[i].attempts <= 3)
    /\ [][\A id \in hist.requeued :
             (last'.op = "fail:retry" /\ last'.arg = <<id>> /\ last'.ret) =>
                /\ hist.dequeues[id] \in 1 .. 2 => id \in Ids(queue'.pending)
                /\ hist.dequeues[id] = 3 => id \in Ids(queue'.failed)]_vars

(* retryFailed has just moved one job behind a job it had moved before and
   that has been handed out twice and put back since *)
RetryFailedRequeuesWitness ==
    /\ last.op = "retryFailed" /\ last.count = 1
    /\ Len(queue.pending) = 2
    /\ queue.pending[1].attempts = 2
    /\ queue.pending[2].attempts = 0
    /\ queue.pending[2].id \in hist.requeued
    /\ queue.pending[1].id \in hist.requeued

====
